---- MODULE Spec2Model ----
(***************************************************************************)
(* A model of the yyjson Ruby extension (ext/yyjson): the option/mode      *)
(* resolver (parser.c, writer.c), the HTML-escaping pass of the writer,    *)
(* the key-interning cache of the value builder and the object dumper.     *)
(*                                                                         *)
(* Ruby VALUEs are tagged records [t |-> tag, ...]; byte strings are       *)
(* sequences of byte values 0..255.                                        *)
(***************************************************************************)
EXTENDS Integers, Sequences, FiniteSets, TLC

VARIABLES
    \* ---- option resolution (yyjson_extract_dump_options / _parse_options)
    opts_hash,      \* the options hash handed to the last dump-side call
    dump_opts,      \* the yyjson_dump_options it resolved to
    popts_hash,     \* the options hash handed to the last load-side call
    parse_opts,     \* the yyjson_parse_options it resolved to
    opt_pc,         \* "idle", or the entry point whose options are resolved
    \* ---- writer.c: escape_html_entities
    esc_pc,         \* position in escape_html_entities
    esc_json,       \* its argument json[0..len-1]
    escape_count,   \* result of the counting pass
    esc_size,       \* size of the buffer malloc'ed for the result
    esc_result,     \* the bytes written to the buffer (dst - result of them)
    esc_null,       \* TRUE when the function returns NULL
    \* ---- value_builder.c: the key caches of one yyjson_build_ruby_object call
    c_pc,           \* "idle" or "building"
    symbolize,      \* ctx->opts->symbolize_names of the call
    str_cache,      \* ctx->str_cache: entries[0..len-1]
    sym_cache,      \* ctx->sym_cache
    next_id,        \* identity of the next String object allocated
    key_log,        \* the (key, VALUE) pairs stored into pairs[] so far
    fill_todo,      \* keys of the document's leading run of distinct keys left
    have_interned,  \* build: HAVE_RB_ENC_INTERNED_STR
    char_signed,    \* build: fast_cmp compiled in and plain char is signed
    \* ---- object_dumper.c / writer.c: one dump call, and the load of its text
    d_pc,           \* "idle", "call", "iter", "ret", "done" or "loaded"
    d_entry,        \* "dump" or "dump_file" ("none" when idle)
    d_heap,         \* the arrays, hashes and objects the dumped value refers to
    d_obj,          \* the VALUE dumped
    d_cur,          \* the argument of the dump_ruby_object call in progress
    d_depth,        \* ctx->depth
    d_visited,      \* ctx->visited: identities of the containers marked
    d_stack,        \* the dump_array / dump_hash frames
    d_doc,          \* the values of the mutable document
    d_alloc,        \* the document: "none", "alive" or "freed"
    d_error,        \* the exception raised: "none", "nesting", "circular", "nan", "write",
                    \* "stack" (SystemStackError), or "crash" when the process ended
    d_result,       \* the String returned by dump
    d_file,         \* the bytes written to the file by dump_file
    l_value,        \* the VALUE returned by the load of d_result
    l_error,        \* the exception it raised: "none" or "parse"
    l_depth,        \* the deepest nesting of build_arr / build_obj calls in it
    d_native,       \* dump_ruby_object calls stacked on as_json results for the
                    \* member fetched last
    \* ---- value_builder.c: one build_num call
    n_pc,           \* "idle" or "built"
    n_long64,       \* build: long is 64 bits wide
    n_sub,          \* the subtype of the number node: "sint", "uint" or "real"
    n_num,          \* its payload read as a 64-bit integer
    n_real,         \* its payload read as a double
    n_index,        \* the index into small_ints the call read (<<>> when none)
    n_value,        \* the VALUE returned
    n_out,          \* the node dump_integer made of it: its subtype and payload
    n_raise         \* the exception dump_integer raised, "none" if none

optVars == <<opts_hash, dump_opts, popts_hash, parse_opts, opt_pc>>

escVars == <<esc_pc, esc_json, escape_count, esc_size, esc_result, esc_null>>

cacheVars == <<c_pc, symbolize, str_cache, sym_cache, next_id, key_log,
               fill_todo, have_interned, char_signed>>

dumpVars == <<d_pc, d_entry, d_heap, d_obj, d_cur, d_depth, d_visited, d_stack,
              d_doc, d_alloc, d_error, d_result, d_file, l_value, l_error, l_depth, d_native>>

numVars == <<n_pc, n_long64, n_sub, n_num, n_real, n_index, n_value, n_out, n_raise>>

vars == <<optVars, escVars, cacheVars, dumpVars, numVars>>

(***************************************************************************)
(* Ruby VALUEs                                                             *)
(***************************************************************************)
Qnil   == [t |-> "nil"]
Qtrue  == [t |-> "true"]
Qfalse == [t |-> "false"]
Fix(n) == [t |-> "fixnum", v |-> n]
Sym(s) == [t |-> "symbol", v |-> s]
Str(s) == [t |-> "string", v |-> s]

NIL_P(v)    == v = Qnil
RTEST(v)    == v # Qnil /\ v # Qfalse
SYMBOL_P(v) == v.t = "symbol"
NUM2INT(v)  == v.v

(***************************************************************************)
(* Modes (common.h)                                                        *)
(***************************************************************************)
Modes == {"MODE_STRICT", "MODE_COMPAT", "MODE_RAILS", "MODE_OBJECT", "MODE_CUSTOM"}

(***************************************************************************)
(* writer.c: yyjson_extract_dump_options.  h is the options hash as        *)
(* rb_hash_aref sees it (Qnil for a key that is not there), or Qnil for no *)
(* hash at all.  The assignments are applied in the order of the code.     *)
(***************************************************************************)
DumpDefaults ==
    [pretty |-> FALSE, escape_slash |-> FALSE, allow_nan |-> TRUE,
     escape_html |-> FALSE, indent |-> 2, mode |-> "MODE_COMPAT",
     temp_obj |-> 0]

DumpSetPretty(o, h) ==
    IF ~NIL_P(h.pretty) THEN [o EXCEPT !.pretty = RTEST(h.pretty)] ELSE o

DumpSetIndent(o, h) ==
    IF ~NIL_P(h.indent)
    THEN [o EXCEPT !.indent = NUM2INT(h.indent),
                   !.pretty = IF NUM2INT(h.indent) > 0 THEN TRUE ELSE @]
    ELSE o

DumpSetEscapeSlash(o, h) ==
    IF ~NIL_P(h.escape_slash) THEN [o EXCEPT !.escape_slash = RTEST(h.escape_slash)] ELSE o

DumpSetAllowNan(o, h) ==
    IF ~NIL_P(h.allow_nan) THEN [o EXCEPT !.allow_nan = RTEST(h.allow_nan)] ELSE o

DumpApplyMode(o, h) ==
    IF ~NIL_P(h.mode) /\ SYMBOL_P(h.mode)
    THEN CASE h.mode.v = "strict" ->
                [o EXCEPT !.mode = "MODE_STRICT", !.allow_nan = FALSE,
                          !.escape_slash = TRUE]
           [] h.mode.v = "compat" -> [o EXCEPT !.mode = "MODE_COMPAT"]
           [] h.mode.v = "rails"  ->
                [o EXCEPT !.mode = "MODE_RAILS", !.escape_html = TRUE]
           [] h.mode.v = "object" -> [o EXCEPT !.mode = "MODE_OBJECT"]
           [] OTHER -> o
    ELSE o

DumpSetEscapeHtml(o, h) ==
    IF ~NIL_P(h.escape_html) THEN [o EXCEPT !.escape_html = RTEST(h.escape_html)] ELSE o

yyjson_extract_dump_options(h) ==
    IF NIL_P(h) THEN DumpDefaults
    ELSE DumpSetEscapeHtml(
           DumpApplyMode(
             DumpSetAllowNan(
               DumpSetEscapeSlash(
                 DumpSetIndent(
                   DumpSetPretty(DumpDefaults, h), h), h), h), h), h)

(***************************************************************************)
(* parser.c: yyjson_extract_parse_options                                  *)
(***************************************************************************)
ParseDefaults ==
    [symbolize_names |-> FALSE, freeze |-> FALSE, allow_nan |-> TRUE,
     allow_comments |-> TRUE, max_nesting |-> 100, mode |-> "MODE_COMPAT"]

ParseApplyMode(o, h) ==
    IF ~NIL_P(h.mode) /\ SYMBOL_P(h.mode)
    THEN CASE h.mode.v = "strict" ->
                [o EXCEPT !.mode = "MODE_STRICT", !.allow_nan = FALSE,
                          !.allow_comments = FALSE, !.symbolize_names = FALSE]
           [] h.mode.v = "compat" -> [o EXCEPT !.mode = "MODE_COMPAT"]
           [] h.mode.v = "rails"  ->
                [o EXCEPT !.mode = "MODE_RAILS", !.symbolize_names = TRUE,
                          !.allow_nan = TRUE, !.allow_comments = TRUE]
           [] h.mode.v = "object" -> [o EXCEPT !.mode = "MODE_OBJECT"]
           [] h.mode.v = "custom" -> [o EXCEPT !.mode = "MODE_CUSTOM"]
           [] OTHER -> o
    ELSE o

ParseSetSymbolizeNames(o, h) ==
    IF ~NIL_P(h.symbolize_names)
    THEN [o EXCEPT !.symbolize_names = RTEST(h.symbolize_names)] ELSE o

ParseSetFreeze(o, h) ==
    IF ~NIL_P(h.freeze) THEN [o EXCEPT !.freeze = RTEST(h.freeze)] ELSE o

ParseSetAllowNan(o, h) ==
    IF ~NIL_P(h.allow_nan) THEN [o EXCEPT !.allow_nan = RTEST(h.allow_nan)] ELSE o

ParseSetAllowComments(o, h) ==
    IF ~NIL_P(h.allow_comments)
    THEN [o EXCEPT !.allow_comments = RTEST(h.allow_comments)] ELSE o

ParseSetMaxNesting(o, h) ==
    IF ~NIL_P(h.max_nesting) THEN [o EXCEPT !.max_nesting = NUM2INT(h.max_nesting)] ELSE o

\* a resolver that applies the mode bundle after the explicit fields
extract_parse_options_mode_last(h) ==
    IF NIL_P(h) THEN ParseDefaults
    ELSE ParseApplyMode(
           ParseSetMaxNesting(
             ParseSetAllowComments(
               ParseSetAllowNan(
                 ParseSetFreeze(
                   ParseSetSymbolizeNames(ParseDefaults, h), h), h), h), h), h)

yyjson_extract_parse_options(h) ==
    IF NIL_P(h) THEN ParseDefaults
    ELSE ParseSetMaxNesting(
           ParseSetAllowComments(
             ParseSetAllowNan(
               ParseSetFreeze(
                 ParseSetSymbolizeNames(
                   ParseApplyMode(ParseDefaults, h), h), h), h), h), h)

\* yyjson_ext.c: the static default_parse_opts used by yyjson_load's fast path
default_parse_opts ==
    [symbolize_names |-> FALSE, freeze |-> FALSE, allow_nan |-> TRUE,
     allow_comments |-> TRUE, max_nesting |-> 100, mode |-> "MODE_COMPAT"]

\* RHASH_EMPTY_P: no key at all in the hash
ParseKeys == {"mode", "symbolize_names", "freeze", "allow_nan", "allow_comments",
              "max_nesting"}
RHASH_EMPTY_P(h) == \A k \in ParseKeys : h[k] = Qnil

\* yyjson_ext.c: yyjson_load / yyjson_parse option handling
yyjson_load_options(h) ==
    IF NIL_P(h) \/ RHASH_EMPTY_P(h) THEN default_parse_opts
    ELSE yyjson_extract_parse_options(h)

\* yyjson_ext.c: yyjson_dump / yyjson_generate / yyjson_dump_file option handling:
\* a missing options argument becomes an empty hash
EmptyDumpHash ==
    [pretty |-> Qnil, indent |-> Qnil, escape_slash |-> Qnil, allow_nan |-> Qnil,
     mode |-> Qnil, escape_html |-> Qnil]

yyjson_dump_options_of(h) ==
    yyjson_extract_dump_options(IF NIL_P(h) THEN EmptyDumpHash ELSE h)

(***************************************************************************)
(* Inputs of the option resolver                                           *)
(***************************************************************************)
BoolArgs == {Qnil, Qtrue, Qfalse}
ModeArgs == {Qnil, Sym("strict"), Sym("compat"), Sym("rails"), Sym("object"),
             Sym("custom"), Str(<<115, 116, 114, 105, 99, 116>>)}
MaxIndent  == 2
IndentArgs == {Qnil} \cup {Fix(n) : n \in 0..MaxIndent}
MaxNestingArg == 2
NestingArgs == {Qnil} \cup {Fix(n) : n \in 0..MaxNestingArg}

DumpHashes ==
    [pretty : BoolArgs, indent : IndentArgs, escape_slash : BoolArgs,
     allow_nan : BoolArgs, mode : ModeArgs, escape_html : BoolArgs]

ParseHashes ==
    [mode : ModeArgs, symbolize_names : BoolArgs, freeze : BoolArgs,
     allow_nan : BoolArgs, allow_comments : BoolArgs, max_nesting : NestingArgs]


\* YYJson.dump / generate / dump_file called with options hash h: the options
\* are a local of the call
ResolveDump ==
    /\ opt_pc = "idle"
    /\ \E h \in DumpHashes \cup {Qnil} :
        /\ opts_hash' = h
        /\ dump_opts' = yyjson_dump_options_of(h)
    /\ opt_pc' = "dump"
    /\ UNCHANGED <<popts_hash, parse_opts>>
    /\ UNCHANGED <<escVars, cacheVars, dumpVars, numVars>>

\* YYJson.load / parse called with options hash h
ResolveLoad ==
    /\ opt_pc = "idle"
    /\ \E h \in ParseHashes \cup {Qnil} :
        /\ popts_hash' = h
        /\ parse_opts' = yyjson_load_options(h)
    /\ opt_pc' = "load"
    /\ UNCHANGED <<opts_hash, dump_opts>>
    /\ UNCHANGED <<escVars, cacheVars, dumpVars, numVars>>

\* YYJson.load_file called with options hash h (no fast path: a missing
\* options argument becomes an empty hash)
ResolveLoadFile ==
    /\ opt_pc = "idle"
    /\ \E h \in ParseHashes :
        /\ popts_hash' = h
        /\ parse_opts' = yyjson_extract_parse_options(h)
    /\ opt_pc' = "load_file"
    /\ UNCHANGED <<opts_hash, dump_opts>>
    /\ UNCHANGED <<escVars, cacheVars, dumpVars, numVars>>

\* the call returns and its locals are gone
OptReturn ==
    /\ opt_pc # "idle"
    /\ opts_hash' = Qnil
    /\ dump_opts' = DumpDefaults
    /\ popts_hash' = Qnil
    /\ parse_opts' = default_parse_opts
    /\ opt_pc' = "idle"
    /\ UNCHANGED <<escVars, cacheVars, dumpVars, numVars>>

OptNext == ResolveDump \/ ResolveLoad \/ ResolveLoadFile \/ OptReturn

(***************************************************************************)
(* writer.c: escape_html_entities.  The two loops are the operators        *)
(* CountPass and RewritePass; the function is run one pass per step.       *)
(***************************************************************************)
IsHtmlChar(c) == c = 60 \/ c = 62 \/ c = 38 \/ c = 39   \* '<' '>' '&' '\''

\* first pass: while (p < end) { if (c is one of the four) escape_count++; p++; }
RECURSIVE CountPass(_, _)
CountPass(json, p) ==
    IF p > Len(json) THEN 0
    ELSE (IF IsHtmlChar(json[p]) THEN 1 ELSE 0) + CountPass(json, p + 1)

\* a rewrite loop that leaves the apostrophe as it is
RECURSIVE RewritePassNoApostrophe(_, _)
RewritePassNoApostrophe(json, src) ==
    IF src > Len(json) THEN <<>>
    ELSE (CASE json[src] = 60 -> <<92, 117, 48, 48, 51, 99>>
            [] json[src] = 62 -> <<92, 117, 48, 48, 51, 101>>
            [] json[src] = 38 -> <<92, 117, 48, 48, 50, 54>>
            [] OTHER          -> <<json[src]>>)
         \o RewritePassNoApostrophe(json, src + 1)

\* second pass: the bytes stored through dst, in order
RECURSIVE RewritePass(_, _)
RewritePass(json, src) ==
    IF src > Len(json) THEN <<>>
    ELSE (CASE json[src] = 60 -> <<92, 117, 48, 48, 51, 99>>     \* \u003c
            [] json[src] = 62 -> <<92, 117, 48, 48, 51, 101>>    \* \u003e
            [] json[src] = 38 -> <<92, 117, 48, 48, 50, 54>>     \* \u0026
            [] json[src] = 39 -> <<92, 117, 48, 48, 50, 55>>     \* \u0027
            [] OTHER          -> <<json[src]>>)
         \o RewritePass(json, src + 1)

\* size of the buffer malloc'ed for the result
EscBufferSize(json, count) ==
    IF count = 0 THEN Len(json) ELSE Len(json) + count * 5

\* the whole function when malloc succeeds: the returned bytes (*out_len of them)
escape_html_entities(json) ==
    IF CountPass(json, 1) = 0 THEN json ELSE RewritePass(json, 1)

\* the serialized texts handed to escape_html_entities: never empty
MaxTextLen == 3
TextBytes == {60, 62, 38, 39, 97, 92}
Texts == UNION {[1..n -> TextBytes] : n \in 1..MaxTextLen}

EscCall ==
    /\ esc_pc = "idle"
    /\ \E t \in Texts : esc_json' = t
    /\ esc_pc' = "count"
    /\ UNCHANGED <<escape_count, esc_size, esc_result, esc_null>>
    /\ UNCHANGED <<optVars, cacheVars, dumpVars, numVars>>

EscCount ==
    /\ esc_pc = "count"
    /\ escape_count' = CountPass(esc_json, 1)
    /\ esc_pc' = "counted"
    /\ UNCHANGED <<esc_json, esc_size, esc_result, esc_null>>
    /\ UNCHANGED <<optVars, cacheVars, dumpVars, numVars>>

\* if (escape_count == 0): malloc(len), memcpy, *out_len = len
EscCopy ==
    /\ esc_pc = "counted" /\ escape_count = 0
    /\ esc_size' = EscBufferSize(esc_json, escape_count)
    /\ esc_result' = esc_json
    /\ esc_pc' = "done"
    /\ UNCHANGED <<esc_json, escape_count, esc_null>>
    /\ UNCHANGED <<optVars, cacheVars, dumpVars, numVars>>

\* malloc(new_len)
EscAlloc ==
    /\ esc_pc = "counted" /\ escape_count > 0
    /\ esc_size' = EscBufferSize(esc_json, escape_count)
    /\ esc_pc' = "rewrite"
    /\ UNCHANGED <<esc_json, escape_count, esc_result, esc_null>>
    /\ UNCHANGED <<optVars, cacheVars, dumpVars, numVars>>

\* malloc returns NULL: the function returns NULL
EscAllocFails ==
    /\ esc_pc = "counted"
    /\ esc_null' = TRUE
    /\ esc_pc' = "done"
    /\ UNCHANGED <<esc_json, escape_count, esc_size, esc_result>>
    /\ UNCHANGED <<optVars, cacheVars, dumpVars, numVars>>

EscRewrite ==
    /\ esc_pc = "rewrite"
    /\ esc_result' = RewritePass(esc_json, 1)
    /\ esc_pc' = "done"
    /\ UNCHANGED <<esc_json, escape_count, esc_size, esc_null>>
    /\ UNCHANGED <<optVars, cacheVars, dumpVars, numVars>>

EscReturn ==
    /\ esc_pc = "done"
    /\ esc_pc' = "idle"
    /\ esc_json' = <<>>
    /\ escape_count' = 0
    /\ esc_size' = 0
    /\ esc_result' = <<>>
    /\ esc_null' = FALSE
    /\ UNCHANGED <<optVars, cacheVars, dumpVars, numVars>>

EscNext == EscCall \/ EscCount \/ EscCopy \/ EscAlloc \/ EscAllocFails
           \/ EscRewrite \/ EscReturn

(***************************************************************************)
(* value_builder.c: the interning cache.  A hash is a uint32_t kept as its *)
(* two 16-bit halves <<hi, lo>>.                                           *)
(***************************************************************************)
CACHE_SIZE    == 63
CACHE_MAX_LEN == 55

\* a ^ b on n-bit operands
RECURSIVE BitXor(_, _, _)
BitXor(a, b, n) ==
    IF n = 0 THEN 0
    ELSE (((a % 2) + (b % 2)) % 2) + 2 * BitXor(a \div 2, b \div 2, n - 1)

\* h ^= (uint8_t)s[i]
FnvXor(h, byte) == <<h[1], (h[2] - (h[2] % 256)) + BitXor(h[2] % 256, byte, 8)>>

\* h *= 16777619u   (16777619 = 2^24 + 403), modulo 2^32
FnvMul(h) ==
    LET low == h[2] * 403
    IN  <<((h[1] * 403) + (low \div 65536) + ((h[2] % 256) * 256)) % 65536, low % 65536>>

\* a uint32_t
UInt32 == (0..65535) \X (0..65535)

\* for (size_t i = 0; i < len; i++) { h ^= s[i]; h *= 16777619u; } from byte i
\* on; h is looked at on entry, so each round is computed before the next
RECURSIVE fnv1a_loop(_, _, _)
fnv1a_loop(h, s, i) ==
    IF h \notin UInt32 \/ i > Len(s) THEN h
    ELSE fnv1a_loop(FnvMul(FnvXor(h, s[i])), s, i + 1)

\* uint32_t h = 2166136261u (0x811C9DC5)
fnv1a(s) == fnv1a_loop(<<33052, 40389>>, s, 1)

(***************************************************************************)
(* The keys of the documents imported                                      *)
(***************************************************************************)
\* "k00", "k01", ...: the distinct keys a document starts with
FillKey(i) == <<107, 48 + (i \div 10), 48 + (i % 10)>>

LongKey(n) == [i \in 1..n |-> 120]

\* the keys that may follow: equal hashes with equal lengths ("declinate" /
\* "macallums", and "ahymubq" / "a\xC3\xA9aaia", which differ in a byte above
\* 0x7F), equal hashes with different lengths ("costarring" / "liquid"), a key
\* of each uncacheable kind and the longest cacheable key
FreeKeys ==
    { <<97>>,
      <<100, 101, 99, 108, 105, 110, 97, 116, 101>>,
      <<109, 97, 99, 97, 108, 108, 117, 109, 115>>,
      <<99, 111, 115, 116, 97, 114, 114, 105, 110, 103>>,
      <<108, 105, 113, 117, 105, 100>>,
      <<97, 104, 121, 109, 117, 98, 113>>,
      <<97, 195, 169, 97, 97, 105, 97>>,
      <<>>,
      <<49, 97>>,
      LongKey(55),
      LongKey(56) }

\* e->hash < h on uint32_t
HashLess(a, b) == a[1] < b[1] \/ (a[1] = b[1] /\ a[2] < b[2])

\* a[i] < b[i] on plain char
CharOf(byte) == IF char_signed /\ byte >= 128 THEN byte - 256 ELSE byte

\* the 8-byte words of fast_cmp after __builtin_bswap64: va < vb
RECURSIVE WordLess(_, _, _, _)
WordLess(a, b, i, n) ==
    IF n = 0 THEN FALSE
    ELSE IF a[i] # b[i] THEN a[i] < b[i]
    ELSE WordLess(a, b, i + 1, n - 1)

\* fast_cmp (memcmp in the builds without it, which orders bytes as unsigned);
\* i counts the bytes already compared
RECURSIVE fast_cmp_from(_, _, _, _)
fast_cmp_from(a, b, len, i) ==
    IF i + 8 <= len
    THEN IF SubSeq(a, i + 1, i + 8) # SubSeq(b, i + 1, i + 8)
         THEN (IF WordLess(a, b, i + 1, 8) THEN -1 ELSE 1)
         ELSE fast_cmp_from(a, b, len, i + 8)
    ELSE IF i < len
    THEN IF a[i + 1] # b[i + 1]
         THEN (IF CharOf(a[i + 1]) < CharOf(b[i + 1]) THEN -1 ELSE 1)
         ELSE fast_cmp_from(a, b, len, i + 1)
    ELSE 0

fast_cmp(a, b, len) == fast_cmp_from(a, b, len, 0)

\* a search that forgets the length test between equal hashes
RECURSIVE cache_search_nolen(_, _, _, _, _, _)
cache_search_nolen(c, s, len, h, lo, hi) ==
    IF lo > hi THEN -(lo + 1)
    ELSE LET mid == (lo + hi) \div 2
             e   == c[mid + 1]
         IN  IF HashLess(e.hash, h) THEN cache_search_nolen(c, s, len, h, mid + 1, hi)
             ELSE IF HashLess(h, e.hash) THEN cache_search_nolen(c, s, len, h, lo, mid - 1)
             ELSE mid

\* cache_search: the loop, entries[k] being c[k + 1]
RECURSIVE cache_search_loop(_, _, _, _, _, _)
cache_search_loop(c, s, len, h, lo, hi) ==
    IF lo > hi THEN -(lo + 1)
    ELSE LET mid == (lo + hi) \div 2
             e   == c[mid + 1]
         IN  IF HashLess(e.hash, h) THEN cache_search_loop(c, s, len, h, mid + 1, hi)
             ELSE IF HashLess(h, e.hash) THEN cache_search_loop(c, s, len, h, lo, mid - 1)
             ELSE IF e.len < len THEN cache_search_loop(c, s, len, h, mid + 1, hi)
             ELSE IF e.len > len THEN cache_search_loop(c, s, len, h, lo, mid - 1)
             ELSE LET cmp == fast_cmp(s, e.ptr, len)
                  IN  IF cmp = 0 THEN mid
                      ELSE IF cmp > 0 THEN cache_search_loop(c, s, len, h, mid + 1, hi)
                      ELSE cache_search_loop(c, s, len, h, lo, mid - 1)

cache_search(c, s, len, h) == cache_search_loop(c, s, len, h, 0, Len(c) - 1)

\* an insert that stores over entries[pos] instead of shifting it
cache_insert_overwrite(c, pos, s, len, h, v) ==
    LET e == [ptr |-> s, len |-> len, hash |-> h, val |-> v]
    IN  IF Len(c) >= CACHE_SIZE THEN c
        ELSE IF pos < Len(c) THEN [c EXCEPT ![pos + 1] = e]
        ELSE Append(c, e)

\* an insert without the test of CACHE_SIZE
cache_insert_unbounded(c, pos, s, len, h, v) ==
    SubSeq(c, 1, pos)
    \o <<[ptr |-> s, len |-> len, hash |-> h, val |-> v]>>
    \o SubSeq(c, pos + 1, Len(c))

\* cache_insert: memmove of entries[pos..len-1] one up, store, len++
cache_insert(c, pos, s, len, h, v) ==
    IF Len(c) >= CACHE_SIZE THEN c
    ELSE SubSeq(c, 1, pos)
         \o <<[ptr |-> s, len |-> len, hash |-> h, val |-> v]>>
         \o SubSeq(c, pos + 1, Len(c))

\* isalpha((unsigned char)s[0]) in the C locale
isalpha(b) == (b >= 65 /\ b <= 90) \/ (b >= 97 /\ b <= 122)

\* the test that sends a key past the cache
Uncacheable(s, len) == len > CACHE_MAX_LEN \/ len = 0 \/ ~isalpha(s[1])

\* a make_fstr that forgets to freeze
make_fstr_unfrozen(s, len, id) ==
    [t |-> "string", v |-> SubSeq(s, 1, len), frozen |-> FALSE, id |-> id]

\* make_fstr: rb_enc_interned_str gives the one interned String of these bytes
\* (identity 0 here); without it a new frozen String, with identity id
make_fstr(s, len, id) ==
    [t |-> "string", v |-> SubSeq(s, 1, len), frozen |-> TRUE,
     id |-> IF have_interned THEN 0 ELSE id]

\* ID2SYM(rb_intern2(s, len)): the one Symbol of these bytes
make_sym(s, len) == [t |-> "symbol", v |-> SubSeq(s, 1, len)]

\* get_str_key: the returned VALUE, the cache afterwards and the next identity
get_str_key(c, s, len, id) ==
    IF Uncacheable(s, len)
    THEN [val |-> make_fstr(s, len, id), cache |-> c, id |-> id + 1]
    ELSE LET h   == fnv1a(s)
             idx == cache_search(c, s, len, h)
         IN  IF idx >= 0
             THEN [val |-> c[idx + 1].val, cache |-> c, id |-> id]
             ELSE LET v == make_fstr(s, len, id)
                  IN  [val |-> v, cache |-> cache_insert(c, -(idx + 1), s, len, h, v),
                       id |-> id + 1]

\* get_sym_key
get_sym_key(c, s, len, id) ==
    IF Uncacheable(s, len)
    THEN [val |-> make_sym(s, len), cache |-> c, id |-> id]
    ELSE LET h   == fnv1a(s)
             idx == cache_search(c, s, len, h)
         IN  IF idx >= 0
             THEN [val |-> c[idx + 1].val, cache |-> c, id |-> id]
             ELSE LET v == make_sym(s, len)
                  IN  [val |-> v, cache |-> cache_insert(c, -(idx + 1), s, len, h, v),
                       id |-> id]

\* number of keys after the leading run
MaxLookups == 2

\* build_obj: pairs[pi++] = sym ? get_sym_key(...) : get_str_key(...)
ObjKey(ks) ==
    LET r == IF symbolize THEN get_sym_key(sym_cache, ks, Len(ks), next_id)
             ELSE get_str_key(str_cache, ks, Len(ks), next_id)
    IN  /\ key_log' = Append(key_log, [key |-> ks, val |-> r.val])
        /\ next_id' = r.id
        /\ IF symbolize
           THEN sym_cache' = r.cache /\ UNCHANGED str_cache
           ELSE str_cache' = r.cache /\ UNCHANGED sym_cache

\* yyjson_build_ruby_object on a container: both caches start empty
BuildBegin ==
    /\ c_pc = "idle"
    /\ c_pc' = "building"
    /\ symbolize' \in BOOLEAN
    /\ fill_todo' \in {0, CACHE_SIZE - 1, CACHE_SIZE}
    /\ str_cache' = <<>>
    /\ sym_cache' = <<>>
    /\ key_log' = <<>>
    /\ UNCHANGED <<next_id, have_interned, char_signed>>
    /\ UNCHANGED <<optVars, escVars, dumpVars, numVars>>

\* build_obj meets the next key of the leading run
BuildFillKey ==
    /\ c_pc = "building" /\ fill_todo > 0
    /\ ObjKey(FillKey(fill_todo - 1))
    /\ fill_todo' = fill_todo - 1
    /\ UNCHANGED <<c_pc, symbolize, have_interned, char_signed>>
    /\ UNCHANGED <<optVars, escVars, dumpVars, numVars>>

\* build_obj meets any key
BuildObjKey ==
    /\ c_pc = "building" /\ fill_todo = 0
    /\ Cardinality({i \in 1..Len(key_log) : key_log[i].key \in FreeKeys}) < MaxLookups
    /\ \E ks \in FreeKeys : ObjKey(ks)
    /\ UNCHANGED <<c_pc, symbolize, fill_todo, have_interned, char_signed>>
    /\ UNCHANGED <<optVars, escVars, dumpVars, numVars>>

\* yyjson_build_ruby_object returns: the caches go with its frame
BuildEnd ==
    /\ c_pc = "building" /\ fill_todo = 0
    /\ c_pc' = "idle"
    /\ symbolize' = FALSE
    /\ str_cache' = <<>>
    /\ sym_cache' = <<>>
    /\ key_log' = <<>>
    /\ next_id' = 1
    /\ UNCHANGED <<fill_todo, have_interned, char_signed>>
    /\ UNCHANGED <<optVars, escVars, dumpVars, numVars>>

CacheNext == BuildBegin \/ BuildFillKey \/ BuildObjKey \/ BuildEnd

\* any build of the extension
CacheInit ==
    /\ opts_hash = Qnil
    /\ dump_opts = DumpDefaults
    /\ popts_hash = Qnil
    /\ parse_opts = default_parse_opts
    /\ opt_pc = "idle"
    /\ esc_pc = "idle"
    /\ esc_json = <<>>
    /\ escape_count = 0
    /\ esc_size = 0
    /\ esc_result = <<>>
    /\ esc_null = FALSE
    /\ c_pc = "idle"
    /\ symbolize = FALSE
    /\ str_cache = <<>>
    /\ sym_cache = <<>>
    /\ next_id = 1
    /\ key_log = <<>>
    /\ fill_todo = 0
    /\ have_interned \in BOOLEAN
    /\ char_signed \in BOOLEAN
    /\ d_pc = "idle"
    /\ d_entry = "none"
    /\ d_heap = <<>>
    /\ d_obj = Qnil
    /\ d_cur = Qnil
    /\ d_depth = 0
    /\ d_visited = {}
    /\ d_stack = <<>>
    /\ d_doc = <<>>
    /\ d_alloc = "none"
    /\ d_error = "none"
    /\ d_result = <<>>
    /\ d_file = <<>>
    /\ l_value = Qnil
    /\ l_error = "none"
    /\ l_depth = 0
    /\ d_native = 0
    /\ n_pc = "idle"
    /\ n_long64 = TRUE
    /\ n_sub = "sint"
    /\ n_num = <<0, 0, 0, 0>>
    /\ n_real = [cls |-> "fin", v |-> 0]
    /\ n_index = <<>>
    /\ n_value = Qnil
    /\ n_out = [sub |-> "none", n |-> <<0, 0, 0, 0>>]
    /\ n_raise = "none"

(***************************************************************************)
(* Host values of the dump side.  Strings, symbols and numbers are VALUEs  *)
(* by content; arrays, hashes and other objects live in a heap and are     *)
(* referred to by identity (rb_obj_id).  A finite Float is kept in tenths. *)
(***************************************************************************)
Flo(c, x) == [t |-> "float", cls |-> c, v |-> x]
Ref(i)    == [t |-> "ref", id |-> i]

\* heap objects: an Array of items, a Hash of <<key, value>> pairs (keys[i]
\* going with items[i]), a Time/Date (s is what iso8601 returns), any other
\* object (s is what to_s returns, rj whether it responds to as_json, aj what
\* as_json returns)
RArray(items) ==
    [t |-> "array", keys |-> <<>>, items |-> items, s |-> <<>>, rj |-> FALSE, aj |-> Qnil]
RHash(pairs) ==
    [t |-> "hash", keys |-> [i \in 1..Len(pairs) |-> pairs[i][1]],
     items |-> [i \in 1..Len(pairs) |-> pairs[i][2]], s |-> <<>>, rj |-> FALSE, aj |-> Qnil]
RTime(s) ==
    [t |-> "time", keys |-> <<>>, items |-> <<>>, s |-> s, rj |-> FALSE, aj |-> Qnil]
RObject(s, rj, aj) ==
    [t |-> "object", keys |-> <<>>, items |-> <<>>, s |-> s, rj |-> rj, aj |-> aj]

\* TYPE(obj)
TYPE(heap, obj) ==
    CASE obj.t = "nil"    -> "T_NIL"
      [] obj.t = "true"   -> "T_TRUE"
      [] obj.t = "false"  -> "T_FALSE"
      [] obj.t = "fixnum" -> "T_FIXNUM"
      [] obj.t = "float"  -> "T_FLOAT"
      [] obj.t = "string" -> "T_STRING"
      [] obj.t = "symbol" -> "T_SYMBOL"
      [] obj.t = "ref"    ->
            (CASE heap[obj.id].t = "array" -> "T_ARRAY"
               [] heap[obj.id].t = "hash"  -> "T_HASH"
               [] OTHER                    -> "T_OBJECT")

(***************************************************************************)
(* The mutable document: its values in document order.  A container is its *)
(* opening value, the values of its members and a closing mark; a member   *)
(* of an object is preceded by its key.                                    *)
(***************************************************************************)
Tok(k, n, s) == [k |-> k, n |-> n, s |-> s]

\* digits of n >= 0
RECURSIVE Dec(_)
Dec(n) == IF n < 10 THEN <<48 + n>> ELSE Dec(n \div 10) \o <<48 + (n % 10)>>

\* Integer#to_s
IntToS(n) == IF n < 0 THEN <<45>> \o Dec(-n) ELSE Dec(n)

\* rb_funcall(key, rb_intern("to_s"), 0) for the keys used here
RbToS(heap, v) ==
    CASE v.t = "nil"    -> <<>>
      [] v.t = "true"   -> <<116, 114, 117, 101>>
      [] v.t = "false"  -> <<102, 97, 108, 115, 101>>
      [] v.t = "fixnum" -> IntToS(v.v)
      [] v.t = "ref"    -> heap[v.id].s
      [] OTHER          -> v.v

(***************************************************************************)
(* object_dumper.c                                                         *)
(***************************************************************************)
MAX_NESTING_DEPTH == 100

\* a check_circular_reference that marks nothing
check_circular_reference_unmarked(heap, obj, depth, visited) ==
    IF depth > MAX_NESTING_DEPTH
    THEN [raise |-> "nesting", visited |-> visited]
    ELSE [raise |-> "none", visited |-> visited]

\* check_circular_reference: what it raises, and ctx->visited afterwards
check_circular_reference(heap, obj, depth, visited) ==
    IF depth > MAX_NESTING_DEPTH
    THEN [raise |-> "nesting", visited |-> visited]
    ELSE IF TYPE(heap, obj) # "T_ARRAY" /\ TYPE(heap, obj) # "T_HASH"
    THEN [raise |-> "none", visited |-> visited]
    ELSE IF obj.id \in visited
    THEN [raise |-> "circular", visited |-> visited]
    ELSE [raise |-> "none", visited |-> visited \cup {obj.id}]

\* an unmark_visited that deletes nothing
unmark_visited_keep(heap, obj, visited) == visited

\* unmark_visited
unmark_visited(heap, obj, visited) ==
    IF TYPE(heap, obj) # "T_ARRAY" /\ TYPE(heap, obj) # "T_HASH" THEN visited
    ELSE visited \ {obj.id}

\* dump_string: yyjson_mut_strncpy(doc, cstr, len)
dump_string(str) == Tok("str", 0, str.v)

\* strlen(cstr): the bytes before the first NUL
RECURSIVE CStr(_)
CStr(s) == IF s = <<>> \/ Head(s) = 0 THEN <<>> ELSE <<Head(s)>> \o CStr(Tail(s))

\* dump_symbol: yyjson_mut_str(doc, rb_id2name(SYM2ID(sym)))
dump_symbol(sym) == Tok("str", 0, CStr(sym.v))

\* dump_integer on an Integer of the document model, which is a Fixnum:
\* yyjson_mut_sint
dump_integer(num) == Tok("sint", num.v, <<>>)

\* dump_float without its test of allow_nan
dump_float_unchecked(num, opts) ==
    [raise |-> "none", node |-> Tok(IF num.cls = "fin" THEN "real" ELSE num.cls, num.v, <<>>)]

\* dump_float: what it raises, and the value of yyjson_mut_real
dump_float(num, opts) ==
    IF num.cls # "fin" /\ ~opts.allow_nan
    THEN [raise |-> "nan", node |-> Tok("null", 0, <<>>)]
    ELSE [raise |-> "none", node |-> Tok(IF num.cls = "fin" THEN "real" ELSE num.cls, num.v, <<>>)]

\* dump_ruby_object on the kinds that need neither recursion nor a check
dump_scalar(obj) ==
    CASE obj.t = "nil"    -> Tok("null", 0, <<>>)
      [] obj.t = "true"   -> Tok("true", 0, <<>>)
      [] obj.t = "false"  -> Tok("false", 0, <<>>)
      [] obj.t = "fixnum" -> dump_integer(obj)
      [] obj.t = "string" -> dump_string(obj)
      [] obj.t = "symbol" -> dump_symbol(obj)

\* dump_hash_iter: the key as a String
key_str(heap, key) ==
    IF TYPE(heap, key) = "T_STRING" THEN key.v
    ELSE IF TYPE(heap, key) = "T_SYMBOL" THEN key.v
    ELSE RbToS(heap, key)

is_basic_json_type(heap, obj) ==
    TYPE(heap, obj) \in {"T_NIL", "T_TRUE", "T_FALSE", "T_FIXNUM", "T_FLOAT",
                         "T_STRING", "T_SYMBOL", "T_ARRAY", "T_HASH"}

is_time_like(heap, obj) == obj.t = "ref" /\ heap[obj.id].t = "time"

\* dump_time: dump_string of what iso8601 / xmlschema / to_s returns
dump_time(heap, obj) == Tok("str", 0, heap[obj.id].s)

\* try_as_json
try_as_json(heap, obj, opts) ==
    IF opts.mode = "MODE_COMPAT" /\ is_basic_json_type(heap, obj) THEN Qnil
    ELSE IF opts.mode = "MODE_RAILS" /\ is_basic_json_type(heap, obj) THEN Qnil
    ELSE IF obj.t = "ref" /\ heap[obj.id].rj THEN heap[obj.id].aj
    ELSE Qnil

(***************************************************************************)
(* The codec engine, serialising: yyjson_mut_write_opts / _write_file on a *)
(* document, for the flags of a call without pretty or indent.             *)
(***************************************************************************)
\* a string's bytes between the quotes
RECURSIVE EscapeStr(_, _)
EscapeStr(s, slash) ==
    IF s = <<>> THEN <<>>
    ELSE (CASE Head(s) = 34 -> <<92, 34>>
            [] Head(s) = 92 -> <<92, 92>>
            [] Head(s) = 47 /\ slash -> <<92, 47>>
            [] OTHER -> <<Head(s)>>)
         \o EscapeStr(Tail(s), slash)

Quoted(s, slash) == <<34>> \o EscapeStr(s, slash) \o <<34>>

RealText(x) ==
    (IF x < 0 THEN <<45>> ELSE <<>>)
    \o Dec((IF x < 0 THEN -x ELSE x) \div 10) \o <<46>>
    \o Dec((IF x < 0 THEN -x ELSE x) % 10)

TokText(tok, flg) ==
    CASE tok.k = "null"    -> <<110, 117, 108, 108>>
      [] tok.k = "true"    -> <<116, 114, 117, 101>>
      [] tok.k = "false"   -> <<102, 97, 108, 115, 101>>
      [] tok.k = "sint"    -> IntToS(tok.n)
      [] tok.k = "uint"    -> IntToS(tok.n)
      [] tok.k = "real"    -> RealText(tok.n)
      [] tok.k = "nan"     -> <<78, 97, 78>>
      [] tok.k = "inf"     -> <<73, 110, 102, 105, 110, 105, 116, 121>>
      [] tok.k = "ninf"    -> <<45, 73, 110, 102, 105, 110, 105, 116, 121>>
      [] tok.k = "str"     -> Quoted(tok.s, flg.escape_slash)
      [] tok.k = "key"     -> Quoted(tok.s, flg.escape_slash) \o <<58>>
      [] tok.k = "arr"     -> <<91>>
      [] tok.k = "end_arr" -> <<93>>
      [] tok.k = "obj"     -> <<123>>
      [] tok.k = "end_obj" -> <<125>>

\* a comma goes before every member but the first
NeedsComma(doc, i) ==
    /\ i > 1
    /\ doc[i].k \notin {"end_arr", "end_obj"}
    /\ doc[i - 1].k \notin {"arr", "obj", "key"}

RECURSIVE WriteRange(_, _, _, _)
WriteRange(doc, flg, lo, hi) ==
    IF lo > hi THEN <<>>
    ELSE IF lo = hi
    THEN (IF NeedsComma(doc, lo) THEN <<44>> ELSE <<>>) \o TokText(doc[lo], flg)
    ELSE WriteRange(doc, flg, lo, (lo + hi) \div 2)
         \o WriteRange(doc, flg, ((lo + hi) \div 2) + 1, hi)

\* NULL (ok = FALSE) for a non-finite number without YYJSON_WRITE_ALLOW_INF_AND_NAN
yyjson_mut_write_opts(doc, flg) ==
    IF ~flg.allow_nan /\ \E i \in 1..Len(doc) : doc[i].k \in {"nan", "inf", "ninf"}
    THEN [ok |-> FALSE, json |-> <<>>]
    ELSE [ok |-> TRUE, json |-> WriteRange(doc, flg, 1, Len(doc))]

\* the write flags of yyjson_ruby_write_string / yyjson_ruby_write_file
WriteFlags(opts) ==
    [pretty |-> opts.pretty, escape_slash |-> opts.escape_slash,
     allow_nan |-> opts.allow_nan]

(***************************************************************************)
(* The codec engine, parsing: yyjson_read_opts on a text, giving the       *)
(* immutable document in the same form (a non-negative integer is a uint). *)
(* The grammar is not checked beyond the values themselves.                *)
(***************************************************************************)
Bytes == 0..255

HexDigit(b) ==
    IF b >= 48 /\ b <= 57 THEN b - 48
    ELSE IF b >= 97 /\ b <= 102 THEN b - 87
    ELSE IF b >= 65 /\ b <= 70 THEN b - 55
    ELSE -1

\* UTF-8 of a code point of the basic plane
Utf8(cp) ==
    IF cp < 128 THEN <<cp>>
    ELSE IF cp < 2048 THEN <<192 + (cp \div 64), 128 + (cp % 64)>>
    ELSE <<224 + (cp \div 4096), 128 + ((cp \div 64) % 64), 128 + (cp % 64)>>

\* the string whose opening quote is before text[p]: its bytes and the
\* position after its closing quote
RECURSIVE ScanStr(_, _, _)
ScanStr(text, p, acc) ==
    IF acc \notin Seq(Bytes) \/ p > Len(text) THEN [ok |-> FALSE, s |-> <<>>, p |-> p]
    ELSE IF text[p] = 34 THEN [ok |-> TRUE, s |-> acc, p |-> p + 1]
    ELSE IF text[p] # 92 THEN ScanStr(text, p + 1, Append(acc, text[p]))
    ELSE IF p + 1 > Len(text) THEN [ok |-> FALSE, s |-> <<>>, p |-> p]
    ELSE IF text[p + 1] \in {34, 92, 47} THEN ScanStr(text, p + 2, Append(acc, text[p + 1]))
    ELSE IF text[p + 1] = 117 /\ p + 5 <= Len(text)
            /\ \A q \in (p + 2)..(p + 5) : HexDigit(text[q]) >= 0
    THEN ScanStr(text, p + 6,
                 acc \o Utf8((4096 * HexDigit(text[p + 2])) + (256 * HexDigit(text[p + 3]))
                             + (16 * HexDigit(text[p + 4])) + HexDigit(text[p + 5])))
    ELSE [ok |-> FALSE, s |-> <<>>, p |-> p]

IsDigit(b) == b >= 48 /\ b <= 57

\* the digits from text[p] on: their value and the position after them
RECURSIVE ScanDigits(_, _, _)
ScanDigits(text, p, n) ==
    IF n < 0 \/ p > Len(text) \/ ~IsDigit(text[p]) THEN [n |-> n, p |-> p]
    ELSE ScanDigits(text, p + 1, (10 * n) + (text[p] - 48))

\* the number at text[p], neg telling whether a '-' came before it
ScanNum(text, p, neg) ==
    LET int == ScanDigits(text, p, 0)
    IN  IF int.p = p THEN [ok |-> FALSE, tok |-> Tok("null", 0, <<>>), p |-> p]
        ELSE IF int.p <= Len(text) /\ text[int.p] = 46
        THEN LET frac == ScanDigits(text, int.p + 1, 0)
             IN  IF frac.p # int.p + 2
                 THEN [ok |-> FALSE, tok |-> Tok("null", 0, <<>>), p |-> p]
                 ELSE [ok |-> TRUE,
                       tok |-> Tok("real", (IF neg THEN -1 ELSE 1) * ((10 * int.n) + frac.n), <<>>),
                       p |-> frac.p]
        ELSE [ok |-> TRUE,
              tok |-> IF neg THEN Tok("sint", -int.n, <<>>) ELSE Tok("uint", int.n, <<>>),
              p |-> int.p]

StartsWith(text, p, w) ==
    p + Len(w) - 1 <= Len(text) /\ SubSeq(text, p, p + Len(w) - 1) = w

\* the value or mark at text[p]
ScanTok(text, flg, p) ==
    LET c == text[p]
        bad == [ok |-> FALSE, tok |-> Tok("null", 0, <<>>), p |-> p]
        lit(k, w) == IF StartsWith(text, p, w)
                     THEN [ok |-> TRUE, tok |-> Tok(k, 0, <<>>), p |-> p + Len(w)] ELSE bad
    IN  CASE c = 91  -> [ok |-> TRUE, tok |-> Tok("arr", 0, <<>>), p |-> p + 1]
          [] c = 93  -> [ok |-> TRUE, tok |-> Tok("end_arr", 0, <<>>), p |-> p + 1]
          [] c = 123 -> [ok |-> TRUE, tok |-> Tok("obj", 0, <<>>), p |-> p + 1]
          [] c = 125 -> [ok |-> TRUE, tok |-> Tok("end_obj", 0, <<>>), p |-> p + 1]
          [] c = 110 -> lit("null", <<110, 117, 108, 108>>)
          [] c = 116 -> lit("true", <<116, 114, 117, 101>>)
          [] c = 102 -> lit("false", <<102, 97, 108, 115, 101>>)
          [] c = 78  -> IF flg.allow_nan THEN lit("nan", <<78, 97, 78>>) ELSE bad
          [] c = 73  -> IF flg.allow_nan
                        THEN lit("inf", <<73, 110, 102, 105, 110, 105, 116, 121>>) ELSE bad
          [] c = 45  -> IF p + 1 <= Len(text) /\ text[p + 1] = 73
                        THEN (IF flg.allow_nan
                              THEN lit("ninf", <<45, 73, 110, 102, 105, 110, 105, 116, 121>>)
                              ELSE bad)
                        ELSE ScanNum(text, p + 1, TRUE)
          [] c = 34  -> LET r == ScanStr(text, p + 1, <<>>)
                        IN  IF ~r.ok THEN bad
                            ELSE IF r.p <= Len(text) /\ text[r.p] = 58
                            THEN [ok |-> TRUE, tok |-> Tok("key", 0, r.s), p |-> r.p + 1]
                            ELSE [ok |-> TRUE, tok |-> Tok("str", 0, r.s), p |-> r.p]
          [] IsDigit(c) -> ScanNum(text, p, FALSE)
          [] OTHER   -> bad

\* the values from text[p] on, after those of doc
RECURSIVE ReadFrom(_, _, _, _)
ReadFrom(text, flg, p, doc) ==
    IF Len(doc) > Len(text) THEN [ok |-> FALSE, doc |-> <<>>]
    ELSE IF p > Len(text) THEN [ok |-> doc # <<>>, doc |-> doc]
    ELSE IF text[p] \in {44, 32, 10} THEN ReadFrom(text, flg, p + 1, doc)
    ELSE LET r == ScanTok(text, flg, p)
         IN  IF ~r.ok THEN [ok |-> FALSE, doc |-> <<>>]
             ELSE ReadFrom(text, flg, r.p, Append(doc, r.tok))

yyjson_read_opts(json, flg) == ReadFrom(json, flg, 1, <<>>)

(***************************************************************************)
(* value_builder.c: numbers.  A 64-bit word (int64_t, uint64_t) is four     *)
(* 16-bit limbs, the most significant first; a Ruby Integer is its sign    *)
(* and the word of its magnitude.                                          *)
(***************************************************************************)
SMALL_INT_MIN == -10
SMALL_INT_MAX == 100

LimbBase == 65536

\* the word of 0 <= n < 2^31
WordOfNat(n) == <<0, 0, n \div LimbBase, n % LimbBase>>

\* ~w
WordNot(w) == <<(LimbBase - 1) - w[1], (LimbBase - 1) - w[2],
                (LimbBase - 1) - w[3], (LimbBase - 1) - w[4]>>

\* (int64_t)n, and (uint64_t)n of an int n: two's complement
WordOfInt(n) == IF n >= 0 THEN WordOfNat(n) ELSE WordNot(WordOfNat((-n) - 1))

\* a + b modulo 2^64
WordAdd(a, b) ==
    LET s4 == a[4] + b[4]
        s3 == a[3] + b[3] + (s4 \div LimbBase)
        s2 == a[2] + b[2] + (s3 \div LimbBase)
        s1 == a[1] + b[1] + (s2 \div LimbBase)
    IN  <<s1 % LimbBase, s2 % LimbBase, s3 % LimbBase, s4 % LimbBase>>

\* a - b modulo 2^64
WordSub(a, b) == WordAdd(WordAdd(a, WordNot(b)), WordOfNat(1))

\* a < b on uint64_t
ULess(a, b) ==
    \E i \in 1..4 : a[i] < b[i] /\ \A j \in 1..(i - 1) : a[j] = b[j]

\* the sign bit of an int64_t
Negative(w) == w[1] >= LimbBase \div 2

\* a < b on int64_t
SLess(a, b) ==
    IF Negative(a) # Negative(b) THEN Negative(a) ELSE ULess(a, b)

\* a Ruby Integer
Integer(neg, mag) == [t |-> "integer", neg |-> neg, mag |-> mag]

\* LL2NUM(n): the Integer of a signed word
LL2NUM(w) ==
    IF Negative(w) THEN Integer(TRUE, WordSub(WordOfNat(0), w)) ELSE Integer(FALSE, w)

\* LONG2FIX((long)n), n within FIXNUM_MIN..FIXNUM_MAX
LONG2FIX(w) == LL2NUM(w)

\* a ULL2NUM that reads its argument as signed
ULL2NUM_signed(w) == LL2NUM(w)

\* ULL2NUM(n): the Integer of an unsigned word
ULL2NUM(w) == Integer(FALSE, w)

\* DBL2NUM(d)
DBL2NUM(d) == Flo(d.cls, d.v)

\* FIXNUM_MAX and FIXNUM_MIN, LONG_MAX >> 1 and LONG_MIN >> 1: long is 64
\* bits wide, or 32
FIXNUM_MAX(long64) ==
    IF long64 THEN <<16383, 65535, 65535, 65535>> ELSE <<0, 0, 16383, 65535>>

FIXNUM_MIN(long64) == WordNot(FIXNUM_MAX(long64))

\* yyjson_value_builder_init: small_ints[i - SMALL_INT_MIN] = LONG2FIX(i)
small_ints ==
    [idx \in 0..(SMALL_INT_MAX - SMALL_INT_MIN) |-> LONG2FIX(WordOfInt(idx + SMALL_INT_MIN))]

\* small_ints[idx], idx a word: outside the array the read is undefined
small_ints_at(idx) ==
    IF idx[1] = 0 /\ idx[2] = 0 /\ idx[3] = 0 /\ idx[4] <= SMALL_INT_MAX - SMALL_INT_MIN
    THEN small_ints[idx[4]]
    ELSE [t |-> "undefined"]

\* build_num on a number of subtype sub whose payload reads n as a 64-bit
\* integer and d as a double: the index into small_ints it uses (<<>> when
\* none) and the VALUE returned
build_num_word(sub, n, d, long64) ==
    IF sub = "sint"
    THEN IF ~SLess(n, WordOfInt(SMALL_INT_MIN)) /\ ~SLess(WordOfInt(SMALL_INT_MAX), n)
         THEN [idx |-> WordSub(n, WordOfInt(SMALL_INT_MIN)),
               val |-> small_ints_at(WordSub(n, WordOfInt(SMALL_INT_MIN)))]
         ELSE IF ~SLess(n, FIXNUM_MIN(long64)) /\ ~SLess(FIXNUM_MAX(long64), n)
         THEN [idx |-> <<>>, val |-> LONG2FIX(n)]
         ELSE [idx |-> <<>>, val |-> LL2NUM(n)]
    ELSE IF sub = "uint"
    THEN IF ~ULess(WordOfInt(SMALL_INT_MAX), n)
         THEN [idx |-> WordSub(n, WordOfInt(SMALL_INT_MIN)),
               val |-> small_ints_at(WordSub(n, WordOfInt(SMALL_INT_MIN)))]
         ELSE IF ~ULess(FIXNUM_MAX(long64), n)
         THEN [idx |-> <<>>, val |-> LONG2FIX(n)]
         ELSE [idx |-> <<>>, val |-> ULL2NUM(n)]
    ELSE [idx |-> <<>>, val |-> DBL2NUM(d)]

\* FIXNUM_P(num)
FIXNUM_P(int, long64) ==
    IF int.neg
    THEN ~ULess(WordAdd(FIXNUM_MAX(long64), WordOfNat(1)), int.mag)
    ELSE ~ULess(FIXNUM_MAX(long64), int.mag)

\* the Integer fits a long long
FitsLL(int) ==
    IF int.neg THEN ~ULess(<<32768, 0, 0, 0>>, int.mag) ELSE int.mag[1] < 32768

\* FIX2LONG(num), and NUM2LL(num) of an Integer that fits: two's complement
NUM2LL(int) == IF int.neg THEN WordSub(WordOfNat(0), int.mag) ELSE int.mag

\* object_dumper.c, dump_integer on an Integer of any size: what it raises
\* (NUM2LL raises RangeError for a Bignum outside long long) and the sint node
\* of yyjson_mut_sint
dump_integer_word(int, long64) ==
    IF FIXNUM_P(int, long64)
    THEN [raise |-> "none", sub |-> "sint", n |-> NUM2LL(int)]
    ELSE IF FitsLL(int)
    THEN [raise |-> "none", sub |-> "sint", n |-> NUM2LL(int)]
    ELSE [raise |-> "RangeError", sub |-> "none", n |-> <<0, 0, 0, 0>>]

\* the Integer as a number of the model, for one below 2^31
NarrowOf(int) ==
    IF int.neg THEN -((int.mag[3] * LimbBase) + int.mag[4])
    ELSE (int.mag[3] * LimbBase) + int.mag[4]

(***************************************************************************)
(* value_builder.c: building the host value of a parsed document.  A       *)
(* built String is [t, v, frozen, id], a built Array or Hash [t, v, frozen]*)
(* with v its elements or its <<key, value>> pairs.                        *)
(***************************************************************************)
\* make_str: a new unfrozen String
make_str(s, len, id) == [t |-> "string", v |-> SubSeq(s, 1, len), frozen |-> FALSE, id |-> id]

\* a build_num that drops the sign
build_num_unsigned(v) ==
    IF v.k = "sint" \/ v.k = "uint" THEN Fix(IF v.n < 0 THEN -v.n ELSE v.n)
    ELSE Flo(IF v.k = "real" THEN "fin" ELSE v.k, v.n)

\* build_num on a node of the document, whose integers are below 2^31
build_num(v) ==
    LET r == IF v.k \in {"sint", "uint"}
             THEN build_num_word(v.k, WordOfInt(v.n), [cls |-> "fin", v |-> 0], TRUE).val
             ELSE build_num_word("real", <<0, 0, 0, 0>>,
                                 [cls |-> IF v.k = "real" THEN "fin" ELSE v.k, v |-> v.n],
                                 TRUE).val
    IN  IF r.t = "integer" THEN Fix(NarrowOf(r)) ELSE r

\* eql? of two hash keys built here
KeyEql(a, b) == a.t = b.t /\ a.v = b.v

\* an insertion that leaves the value of a key already there
RECURSIVE rb_hash_bulk_insert_keep(_, _, _)
rb_hash_bulk_insert_keep(pairs, from, h) ==
    IF Len(h) > Len(pairs) \/ from > Len(pairs) THEN h
    ELSE IF \E i \in 1..Len(h) : h[i][1].t = pairs[from][1].t /\ h[i][1].v = pairs[from][1].v
         THEN rb_hash_bulk_insert_keep(pairs, from + 1, h)
         ELSE rb_hash_bulk_insert_keep(pairs, from + 1, Append(h, pairs[from]))

\* rb_hash_bulk_insert / rb_hash_aset of pairs[from..] into h: a key already
\* there keeps its place and takes the new value
RECURSIVE rb_hash_bulk_insert(_, _, _)
rb_hash_bulk_insert(pairs, from, h) ==
    IF Len(h) > Len(pairs) \/ from > Len(pairs) THEN h
    ELSE LET kv == pairs[from]
         IN  IF \E i \in 1..Len(h) : KeyEql(h[i][1], kv[1])
             THEN rb_hash_bulk_insert(pairs, from + 1,
                      [i \in 1..Len(h) |->
                          IF KeyEql(h[i][1], kv[1]) THEN <<h[i][1], kv[2]>> ELSE h[i]])
             ELSE rb_hash_bulk_insert(pairs, from + 1, Append(h, kv))

\* the context threaded through a build: both caches, the next identity, and
\* the native calls of build_arr / build_obj in progress (depth) with the
\* most there have been at a time (deepest)
Enter(ctx) ==
    [ctx EXCEPT !.depth = @ + 1,
                !.deepest = IF ctx.depth + 1 > @ THEN ctx.depth + 1 ELSE @]

Leave(ctx) == [ctx EXCEPT !.depth = @ - 1]

RECURSIVE build_val(_, _, _, _)
RECURSIVE build_arr(_, _, _, _, _)
RECURSIVE build_obj(_, _, _, _, _)

\* build_arr from its first element at doc[p] on, vals[] filled so far
build_arr(doc, p, ctx, opts, vals) ==
    IF doc[p].k = "end_arr"
    THEN [val |-> [t |-> "array", v |-> vals, frozen |-> opts.freeze], p |-> p + 1,
          ctx |-> Leave(ctx)]
    ELSE LET r == build_val(doc, p, ctx, opts)
         IN  build_arr(doc, r.p, r.ctx, opts, Append(vals, r.val))

\* build_obj from its first key at doc[p] on, pairs[] filled so far
build_obj(doc, p, ctx, opts, pairs) ==
    IF doc[p].k = "end_obj"
    THEN [val |-> [t |-> "hash", v |-> rb_hash_bulk_insert(pairs, 1, <<>>),
                   frozen |-> opts.freeze],
          p |-> p + 1, ctx |-> Leave(ctx)]
    ELSE LET ks == doc[p].s
             k  == IF opts.symbolize_names
                   THEN get_sym_key(ctx.sym_cache, ks, Len(ks), ctx.id)
                   ELSE get_str_key(ctx.str_cache, ks, Len(ks), ctx.id)
             c1 == IF opts.symbolize_names
                   THEN [ctx EXCEPT !.sym_cache = k.cache, !.id = k.id]
                   ELSE [ctx EXCEPT !.str_cache = k.cache, !.id = k.id]
             r  == build_val(doc, p + 1, c1, opts)
         IN  build_obj(doc, r.p, r.ctx, opts, Append(pairs, <<k.val, r.val>>))

\* build_val on the value at doc[p]: the VALUE, the position after it and the
\* context afterwards
build_val(doc, p, ctx, opts) ==
    LET v == doc[p]
    IN  CASE v.k = "null"  -> [val |-> Qnil, p |-> p + 1, ctx |-> ctx]
          [] v.k = "true"  -> [val |-> Qtrue, p |-> p + 1, ctx |-> ctx]
          [] v.k = "false" -> [val |-> Qfalse, p |-> p + 1, ctx |-> ctx]
          [] v.k \in {"sint", "uint", "real", "nan", "inf", "ninf"} ->
                [val |-> build_num(v), p |-> p + 1, ctx |-> ctx]
          [] v.k = "str"   ->
                [val |-> IF opts.freeze THEN make_fstr(v.s, Len(v.s), ctx.id)
                         ELSE make_str(v.s, Len(v.s), ctx.id),
                 p |-> p + 1, ctx |-> [ctx EXCEPT !.id = @ + 1]]
          [] v.k = "arr"   -> build_arr(doc, p + 1, Enter(ctx), opts, <<>>)
          [] v.k = "obj"   -> build_obj(doc, p + 1, Enter(ctx), opts, <<>>)
          [] OTHER         -> [val |-> Qnil, p |-> p + 1, ctx |-> ctx]

\* build_val_simple
build_val_simple(v, freeze, id) ==
    CASE v.k = "null"  -> Qnil
      [] v.k = "true"  -> Qtrue
      [] v.k = "false" -> Qfalse
      [] v.k \in {"sint", "uint", "real", "nan", "inf", "ninf"} -> build_num(v)
      [] v.k = "str"   -> IF freeze THEN make_fstr(v.s, Len(v.s), id)
                          ELSE make_str(v.s, Len(v.s), id)
      [] OTHER         -> Qnil

\* yyjson_build_ruby_object on a container: build_val with fresh caches
build_root(doc, opts) ==
    build_val(doc, 1, [str_cache |-> <<>>, sym_cache |-> <<>>, id |-> 1,
                       depth |-> 0, deepest |-> 0], opts)

\* yyjson_build_ruby_object
yyjson_build_ruby_object(doc, opts) ==
    IF doc = <<>> THEN Qnil
    ELSE IF doc[1].k \notin {"arr", "obj"} THEN build_val_simple(doc[1], opts.freeze, 1)
    ELSE build_root(doc, opts).val

\* the deepest nesting of native calls yyjson_build_ruby_object makes
build_depth(doc, opts) ==
    IF doc = <<>> THEN 0
    ELSE IF doc[1].k \notin {"arr", "obj"} THEN 0
    ELSE build_root(doc, opts).ctx.deepest

\* parser.c: yyjson_parse_string: what it raises and what it returns
yyjson_parse_string(json, opts) ==
    LET flg == [allow_comments |-> opts.allow_comments, allow_nan |-> opts.allow_nan]
        rd  == yyjson_read_opts(json, flg)
    IN  IF ~rd.ok THEN [raise |-> "parse", result |-> Qnil, depth |-> 0]
        ELSE [raise |-> "none", result |-> yyjson_build_ruby_object(rd.doc, opts),
              depth |-> build_depth(rd.doc, opts)]

(***************************************************************************)
(* The values dumped                                                       *)
(***************************************************************************)
\* nesting depths around the limit
MaxChainExtra == 1
ChainDepths == (MAX_NESTING_DEPTH - 1)..(MAX_NESTING_DEPTH + 1 + MaxChainExtra)

\* n containers, each the only member of the one before: arrays and hashes
\* in turn, the innermost an empty array
ChainHeap(n) ==
    [i \in 1..n |->
        IF i = n THEN RArray(<<>>)
        ELSE IF i % 2 = 1 THEN RArray(<<Ref(i + 1)>>)
        ELSE RHash(<<<<Str(<<107>>), Ref(i + 1)>>>>)]

ChainGraphs == {[heap |-> ChainHeap(n), obj |-> Ref(1)] : n \in ChainDepths}

\* every graph of two containers with up to MaxItems members each, a member
\* being one of the two containers or an Integer
MaxItems   == 2
GraphNodes == {1, 2}
GraphItems == {Ref(i) : i \in GraphNodes} \cup {Fix(1)}
ItemSeqs   == UNION {[1..n -> GraphItems] : n \in 0..MaxItems}
PairsOf(s) == [i \in 1..Len(s) |-> <<Str(<<96 + i>>), s[i]>>]
NodeShapes == {RArray(s) : s \in ItemSeqs} \cup {RHash(PairsOf(s)) : s \in ItemSeqs}
SmallGraphs == {[heap |-> h, obj |-> Ref(1)] : h \in [GraphNodes -> NodeShapes]}

\* shallow nestings, dumped with a max_nesting of their own
MaxShallow == 2
NestingGraphs ==
    ChainGraphs \cup {[heap |-> ChainHeap(n), obj |-> Ref(1)] : n \in 1..MaxShallow}

StructGraphs == NestingGraphs \cup SmallGraphs

\* values of every kind: a Date, an object with as_json, an object with only
\* to_s, and one container of these and of the immediate values
ValueObjects ==
    << RTime(<<50, 48, 50, 48, 45, 48, 49, 45, 48, 50>>),      \* 2020-01-02
       RObject(<<35, 60, 80, 62>>, TRUE, Fix(7)),               \* #<P>
       RObject(<<35, 60, 79, 62>>, FALSE, Qnil) >>              \* #<O>

Leaves ==
    { Qnil, Qtrue, Qfalse, Fix(0), Fix(-11), Fix(101),
      Flo("fin", 15), Flo("fin", -5), Flo("nan", 0), Flo("inf", 0), Flo("ninf", 0),
      Str(<<>>), Str(<<97>>), Str(<<60, 98, 62, 38, 39>>), Str(<<97, 47, 34, 92>>),
      Sym(<<115>>), Ref(1), Ref(2), Ref(3) }

KeyLeaves == {Str(<<97>>), Sym(<<97>>), Fix(1), Qnil, Str(<<60>>)}

ValueContainers ==
    {RArray(<<l>>) : l \in Leaves}
    \cup {RHash(<<<<k, Fix(1)>>>>) : k \in KeyLeaves}
    \cup { RArray(<<>>), RHash(<<>>),
           RArray(<<Fix(1), Str(<<97>>)>>),
           RHash(<<<<Str(<<97>>), Fix(1)>>, <<Sym(<<97>>), Fix(2)>>>>),
           RHash(<<<<Str(<<98>>), Str(<<60, 98, 62>>)>>, <<Sym(<<97>>), Flo("nan", 0)>>>>) }

ValueGraphs ==
    {[heap |-> ValueObjects, obj |-> l] : l \in Leaves}
    \cup {[heap |-> Append(ValueObjects, c), obj |-> Ref(4)] : c \in ValueContainers}

\* values with an as_json of their own: an object whose as_json returns nil,
\* false, an Integer, a String or an Array, and an Array and a Hash whose
\* as_json returns an Integer; each dumped alone and as the member of an Array
AsJsonResults == {Qnil, Qfalse, Fix(7), Str(<<97>>), Ref(2)}
WithAsJson(o, aj) == [o EXCEPT !.rj = TRUE, !.aj = aj]
AsJsonObjects ==
    {RObject(<<35, 60, 80, 62>>, TRUE, r) : r \in AsJsonResults}
    \cup { WithAsJson(RArray(<<Fix(1)>>), Fix(7)),
           WithAsJson(RHash(<<<<Str(<<97>>), Fix(1)>>>>), Fix(7)) }
JsonGraphs ==
    {[heap |-> <<o, RArray(<<Fix(1)>>), RArray(<<Ref(1)>>)>>, obj |-> r] :
        o \in AsJsonObjects, r \in {Ref(1), Ref(3)}}

\* hashes in hashes: {k => {"n" => 1}, "z" => 2} and {k => [{"n" => 1}], "z" => 2},
\* the key k a String, a Symbol, an Integer, nil or an object
MapKeys == {Str(<<97>>), Sym(<<98>>), Fix(-3), Qnil, Ref(4)}
NestedMapGraphs ==
    {[heap |-> << RHash(<< <<k, Ref(2)>>, <<Str(<<122>>), Fix(2)>> >>),
                  inner,
                  RHash(<< <<Str(<<110>>), Fix(1)>> >>),
                  RObject(<<35, 60, 75, 62>>, FALSE, Qnil) >>,
      obj |-> Ref(1)] :
        k \in MapKeys, inner \in {RHash(<< <<Str(<<109>>), Ref(3)>> >>), RArray(<<Ref(3)>>)}}

\* dump_ruby_object calls on as_json results that the native stack holds
MaxNative == 3

\* objects whose as_json gives an object with as_json: itself, each other, one
\* that gives 7, and one that gives an array holding the object
AsJsonChainGraphs ==
    { [heap |-> << RObject(<<35, 60, 80, 62>>, TRUE, Ref(1)) >>, obj |-> Ref(1)],
      [heap |-> << RObject(<<35, 60, 80, 62>>, TRUE, Ref(2)),
                   RObject(<<35, 60, 81, 62>>, TRUE, Ref(1)) >>, obj |-> Ref(1)],
      [heap |-> << RObject(<<35, 60, 80, 62>>, TRUE, Ref(2)),
                   RObject(<<35, 60, 81, 62>>, TRUE, Fix(7)) >>, obj |-> Ref(1)],
      [heap |-> << RArray(<<Ref(2), Fix(1)>>),
                   RObject(<<35, 60, 80, 62>>, TRUE, Ref(2)) >>, obj |-> Ref(1)],
      [heap |-> << RObject(<<35, 60, 80, 62>>, TRUE, Ref(2)),
                   RArray(<<Ref(1)>>) >>, obj |-> Ref(1)] }

\* a Float two containers down: [1, {"k" => [f]}]
FloatLeaves == {l \in Leaves : l.t = "float"}
DeepFloatGraphs ==
    {[heap |-> << RArray(<<Fix(1), Ref(2)>>),
                  RHash(<<<<Str(<<107>>), Ref(3)>>>>),
                  RArray(<<f>>) >>,
      obj |-> Ref(1)] : f \in FloatLeaves}

\* the option hashes of the calls on them
DumpModeArgs == {Qnil, Sym("strict"), Sym("compat"), Sym("rails"), Sym("object")}
DumpCallHashes ==
    {Qnil} \cup
    [pretty : {Qnil}, indent : {Qnil}, escape_slash : {Qnil}, allow_nan : {Qnil, Qtrue},
     mode : DumpModeArgs, escape_html : BoolArgs]

\* option hashes with a max_nesting entry, which yyjson_extract_dump_options
\* never looks up
NestingCallHashes ==
    [pretty : {Qnil}, indent : {Qnil}, escape_slash : {Qnil}, allow_nan : {Qnil},
     mode : {Qnil}, escape_html : {Qnil}, max_nesting : {Fix(0), Fix(1)}]

\* option hashes of a mode alone
ModeCallHashes ==
    {Qnil} \cup
    [pretty : {Qnil}, indent : {Qnil}, escape_slash : {Qnil}, allow_nan : {Qnil},
     mode : (DumpModeArgs \cup {Sym("custom")}) \ {Qnil}, escape_html : {Qnil}]

\* option hashes with allow_nan given or not, alone and with mode Strict
FloatCallHashes ==
    {Qnil} \cup
    [pretty : {Qnil}, indent : {Qnil}, escape_slash : {Qnil}, allow_nan : BoolArgs,
     mode : {Qnil, Sym("strict")}, escape_html : {Qnil}]

\* the option hashes a graph is dumped with
DumpHashesOf(g) ==
    IF g \in ValueGraphs THEN DumpCallHashes
    ELSE IF g \in DeepFloatGraphs THEN FloatCallHashes
    ELSE IF g \in JsonGraphs THEN ModeCallHashes
    ELSE IF g \in NestingGraphs THEN {Qnil} \cup NestingCallHashes
    ELSE {Qnil}

\* the option hashes of the calls that load a dumped text again
LoadBackHashes ==
    { Qnil,
      [mode |-> Qnil, symbolize_names |-> Qtrue, freeze |-> Qnil, allow_nan |-> Qnil,
       allow_comments |-> Qnil, max_nesting |-> Qnil],
      [mode |-> Qnil, symbolize_names |-> Qnil, freeze |-> Qtrue, allow_nan |-> Qfalse,
       allow_comments |-> Qnil, max_nesting |-> Qnil],
      [mode |-> Sym("strict"), symbolize_names |-> Qnil, freeze |-> Qnil, allow_nan |-> Qnil,
       allow_comments |-> Qnil, max_nesting |-> Qnil],
      [mode |-> Qnil, symbolize_names |-> Qnil, freeze |-> Qnil, allow_nan |-> Qnil,
       allow_comments |-> Qnil, max_nesting |-> Fix(1)] }

\* longest text loaded again
MaxLoadLen == 40

(***************************************************************************)
(* One YYJson.dump / generate / dump_file call, a step at a time.  d_stack *)
(* holds the dump_array / dump_hash frames: the container, the number of   *)
(* members done, the temp_obj saved, and for a hash the node it builds     *)
(* (obj of dump_hash), the node dump_hash_iter took from temp_obj (its own *)
(* obj), the key of the member being dumped and where its value starts in  *)
(* the document.  An object node is named by the order of its allocation,  *)
(* kept in its opening value; a key holds the name of the node it was      *)
(* added to.                                                               *)
(***************************************************************************)
Frame(kind, id, saved, node) ==
    [kind |-> kind, id |-> id, i |-> 0, saved_temp |-> saved, node |-> node, obj |-> 0,
     key |-> <<>>, vstart |-> 0]

\* yyjson_mut_obj(ctx->doc): the node allocated
yyjson_mut_obj(doc) == 1 + Cardinality({n \in 1..Len(doc) : doc[n].k = "obj"})

\* a dump_hash that leaves its own node in temp_obj
restore_temp_skip(opts, saved_temp) == opts

\* dump_hash: ((yyjson_dump_options *)ctx->opts)->temp_obj = saved_temp
restore_temp(opts, saved_temp) == [opts EXCEPT !.temp_obj = saved_temp]

Top == d_stack[Len(d_stack)]

Pop == SubSeq(d_stack, 1, Len(d_stack) - 1)

SetTop(f) == [d_stack EXCEPT ![Len(d_stack)] = f]

\* rb_raise: the call is left at once, with whatever it had allocated
Raise(kind) ==
    /\ d_error' = kind
    /\ d_pc' = "done"

\* yyjson_dump (yyjson_generate): options, then yyjson_ruby_write_string up to
\* the call of dump_ruby_object on the root
Dump ==
    /\ d_pc = "idle"
    /\ \E g \in StructGraphs \cup ValueGraphs \cup JsonGraphs \cup DeepFloatGraphs
                   \cup NestedMapGraphs \cup AsJsonChainGraphs :
       \E h \in DumpHashesOf(g) :
          /\ opts_hash' = h
          /\ dump_opts' = yyjson_dump_options_of(h)
          /\ d_heap' = g.heap
          /\ d_obj' = g.obj
          /\ d_cur' = g.obj
    /\ d_entry' = "dump"
    /\ d_alloc' = "alive"
    /\ d_pc' = "call"
    /\ UNCHANGED <<d_depth, d_visited, d_stack, d_doc, d_error, d_result, d_file,
                   l_value, l_error, l_depth, d_native>>
    /\ UNCHANGED <<popts_hash, parse_opts, opt_pc, escVars, cacheVars, numVars>>

\* yyjson_dump_file: options, then yyjson_ruby_write_file up to the call of
\* dump_ruby_object on the root
DumpFile ==
    /\ d_pc = "idle"
    /\ \E g \in ValueGraphs :
       \E h \in DumpCallHashes :
          /\ opts_hash' = h
          /\ dump_opts' = yyjson_dump_options_of(h)
          /\ d_heap' = g.heap
          /\ d_obj' = g.obj
          /\ d_cur' = g.obj
    /\ d_entry' = "dump_file"
    /\ d_alloc' = "alive"
    /\ d_pc' = "call"
    /\ UNCHANGED <<d_depth, d_visited, d_stack, d_doc, d_error, d_result, d_file,
                   l_value, l_error, l_depth, d_native>>
    /\ UNCHANGED <<popts_hash, parse_opts, opt_pc, escVars, cacheVars, numVars>>

\* dump_ruby_object: nil, true, false, Integer, String, Symbol
DumpScalar ==
    /\ d_pc = "call"
    /\ TYPE(d_heap, d_cur) \in {"T_NIL", "T_TRUE", "T_FALSE", "T_FIXNUM", "T_STRING", "T_SYMBOL"}
    /\ d_doc' = Append(d_doc, dump_scalar(d_cur))
    /\ d_pc' = "ret"
    /\ UNCHANGED <<d_entry, d_heap, d_obj, d_cur, d_depth, d_visited, d_stack, d_alloc,
                   d_error, d_result, d_file, l_value, l_error, l_depth, d_native>>
    /\ UNCHANGED <<optVars, escVars, cacheVars, numVars>>

\* dump_ruby_object: Float
DumpFloat ==
    /\ d_pc = "call"
    /\ TYPE(d_heap, d_cur) = "T_FLOAT"
    /\ LET r == dump_float(d_cur, dump_opts)
       IN  IF r.raise # "none"
           THEN Raise(r.raise) /\ UNCHANGED d_doc
           ELSE d_doc' = Append(d_doc, r.node) /\ d_pc' = "ret" /\ UNCHANGED d_error
    /\ UNCHANGED <<d_entry, d_heap, d_obj, d_cur, d_depth, d_visited, d_stack, d_alloc,
                   d_result, d_file, l_value, l_error, l_depth, d_native>>
    /\ UNCHANGED <<optVars, escVars, cacheVars, numVars>>

\* dump_array up to its loop
DumpArray ==
    /\ d_pc = "call"
    /\ TYPE(d_heap, d_cur) = "T_ARRAY"
    /\ LET r == check_circular_reference(d_heap, d_cur, d_depth, d_visited)
       IN  IF r.raise # "none"
           THEN Raise(r.raise) /\ UNCHANGED <<d_depth, d_visited, d_stack, d_doc>>
           ELSE /\ d_visited' = r.visited
                /\ d_depth' = d_depth + 1
                /\ d_doc' = Append(d_doc, Tok("arr", 0, <<>>))
                /\ d_stack' = Append(d_stack, Frame("array", d_cur.id, 0, 0))
                /\ d_pc' = "iter"
                /\ UNCHANGED d_error
    /\ UNCHANGED <<d_entry, d_heap, d_obj, d_cur, d_alloc, d_result, d_file, l_value, l_error, l_depth, d_native>>
    /\ UNCHANGED <<optVars, escVars, cacheVars, numVars>>

\* dump_array: item = rb_ary_entry(ary, i); dump_ruby_object(item, ctx)
ArrayItem ==
    /\ d_pc = "iter"
    /\ Top.kind = "array"
    /\ Top.i < Len(d_heap[Top.id].items)
    /\ d_cur' = d_heap[Top.id].items[Top.i + 1]
    /\ d_pc' = "call"
    /\ d_native' = 0
    /\ UNCHANGED <<d_entry, d_heap, d_obj, d_depth, d_visited, d_stack, d_doc, d_alloc,
                   d_error, d_result, d_file, l_value, l_error, l_depth>>
    /\ UNCHANGED <<optVars, escVars, cacheVars, numVars>>

\* dump_array: yyjson_mut_arr_append(arr, json_val); i++
ArrayAppend ==
    /\ d_pc = "ret"
    /\ d_stack # <<>>
    /\ Top.kind = "array"
    /\ d_stack' = SetTop([Top EXCEPT !.i = @ + 1])
    /\ d_pc' = "iter"
    /\ UNCHANGED <<d_entry, d_heap, d_obj, d_cur, d_depth, d_visited, d_doc, d_alloc,
                   d_error, d_result, d_file, l_value, l_error, l_depth, d_native>>
    /\ UNCHANGED <<optVars, escVars, cacheVars, numVars>>

\* dump_array after its loop
ArrayReturn ==
    /\ d_pc = "iter"
    /\ Top.kind = "array"
    /\ Top.i = Len(d_heap[Top.id].items)
    /\ d_depth' = d_depth - 1
    /\ d_visited' = unmark_visited(d_heap, Ref(Top.id), d_visited)
    /\ d_doc' = Append(d_doc, Tok("end_arr", 0, <<>>))
    /\ d_stack' = Pop
    /\ d_pc' = "ret"
    /\ UNCHANGED <<d_entry, d_heap, d_obj, d_cur, d_alloc, d_error, d_result, d_file,
                   l_value, l_error, l_depth, d_native>>
    /\ UNCHANGED <<optVars, escVars, cacheVars, numVars>>

\* dump_hash up to rb_hash_foreach: the new object goes into opts->temp_obj
DumpHash ==
    /\ d_pc = "call"
    /\ TYPE(d_heap, d_cur) = "T_HASH"
    /\ LET r == check_circular_reference(d_heap, d_cur, d_depth, d_visited)
       IN  IF r.raise # "none"
           THEN Raise(r.raise) /\ UNCHANGED <<d_depth, d_visited, d_stack, d_doc, dump_opts>>
           ELSE /\ d_visited' = r.visited
                /\ d_depth' = d_depth + 1
                /\ d_doc' = Append(d_doc, Tok("obj", yyjson_mut_obj(d_doc), <<>>))
                /\ d_stack' = Append(d_stack, Frame("hash", d_cur.id, dump_opts.temp_obj,
                                                     yyjson_mut_obj(d_doc)))
                /\ dump_opts' = [dump_opts EXCEPT !.temp_obj = yyjson_mut_obj(d_doc)]
                /\ d_pc' = "iter"
                /\ UNCHANGED d_error
    /\ UNCHANGED <<d_entry, d_heap, d_obj, d_cur, d_alloc, d_result, d_file, l_value, l_error, l_depth, d_native>>
    /\ UNCHANGED <<opts_hash, popts_hash, parse_opts, opt_pc, escVars, cacheVars, numVars>>

\* dump_hash_iter up to dump_ruby_object(val, ctx)
HashIter ==
    /\ d_pc = "iter"
    /\ Top.kind = "hash"
    /\ Top.i < Len(d_heap[Top.id].items)
    /\ d_stack' = SetTop([Top EXCEPT !.key = key_str(d_heap, d_heap[Top.id].keys[Top.i + 1]),
                                     !.obj = dump_opts.temp_obj,
                                     !.vstart = Len(d_doc) + 1])
    /\ d_cur' = d_heap[Top.id].items[Top.i + 1]
    /\ d_pc' = "call"
    /\ d_native' = 0
    /\ UNCHANGED <<d_entry, d_heap, d_obj, d_depth, d_visited, d_doc, d_alloc,
                   d_error, d_result, d_file, l_value, l_error, l_depth>>
    /\ UNCHANGED <<optVars, escVars, cacheVars, numVars>>

\* dump_hash_iter: yyjson_mut_obj_add(obj, key, json_val)
HashAdd ==
    /\ d_pc = "ret"
    /\ d_stack # <<>>
    /\ Top.kind = "hash"
    /\ d_doc' = SubSeq(d_doc, 1, Top.vstart - 1)
                \o <<Tok("key", Top.obj, Top.key)>>
                \o SubSeq(d_doc, Top.vstart, Len(d_doc))
    /\ d_stack' = SetTop([Top EXCEPT !.i = @ + 1])
    /\ d_pc' = "iter"
    /\ UNCHANGED <<d_entry, d_heap, d_obj, d_cur, d_depth, d_visited, d_alloc,
                   d_error, d_result, d_file, l_value, l_error, l_depth, d_native>>
    /\ UNCHANGED <<optVars, escVars, cacheVars, numVars>>

\* dump_hash after rb_hash_foreach
HashReturn ==
    /\ d_pc = "iter"
    /\ Top.kind = "hash"
    /\ Top.i = Len(d_heap[Top.id].items)
    /\ dump_opts' = restore_temp(dump_opts, Top.saved_temp)
    /\ d_depth' = d_depth - 1
    /\ d_visited' = unmark_visited(d_heap, Ref(Top.id), d_visited)
    /\ d_doc' = Append(d_doc, Tok("end_obj", 0, <<>>))
    /\ d_stack' = Pop
    /\ d_pc' = "ret"
    /\ UNCHANGED <<d_entry, d_heap, d_obj, d_cur, d_alloc, d_error, d_result, d_file,
                   l_value, l_error, l_depth, d_native>>
    /\ UNCHANGED <<opts_hash, popts_hash, parse_opts, opt_pc, escVars, cacheVars, numVars>>

\* dump_ruby_object, default: a Time, Date or DateTime
DumpTime ==
    /\ d_pc = "call"
    /\ TYPE(d_heap, d_cur) = "T_OBJECT"
    /\ is_time_like(d_heap, d_cur)
    /\ d_doc' = Append(d_doc, dump_time(d_heap, d_cur))
    /\ d_pc' = "ret"
    /\ UNCHANGED <<d_entry, d_heap, d_obj, d_cur, d_depth, d_visited, d_stack, d_alloc,
                   d_error, d_result, d_file, l_value, l_error, l_depth, d_native>>
    /\ UNCHANGED <<optVars, escVars, cacheVars, numVars>>

\* dump_ruby_object, default: as_json gave a value, which is dumped instead
DumpAsJson ==
    /\ d_pc = "call"
    /\ TYPE(d_heap, d_cur) = "T_OBJECT"
    /\ ~is_time_like(d_heap, d_cur)
    /\ ~NIL_P(try_as_json(d_heap, d_cur, dump_opts))
    /\ d_cur' = try_as_json(d_heap, d_cur, dump_opts)
    /\ d_native < MaxNative
    /\ d_native' = d_native + 1
    /\ UNCHANGED <<d_pc, d_entry, d_heap, d_obj, d_depth, d_visited, d_stack, d_doc, d_alloc,
                   d_error, d_result, d_file, l_value, l_error, l_depth>>
    /\ UNCHANGED <<optVars, escVars, cacheVars, numVars>>

\* dump_ruby_object, default: as_json gave a value once more, and the native
\* stack has no room for the call that dumps it: SystemStackError, or the
\* process ends
DumpAsJsonOverflow ==
    /\ d_pc = "call"
    /\ TYPE(d_heap, d_cur) = "T_OBJECT"
    /\ ~is_time_like(d_heap, d_cur)
    /\ ~NIL_P(try_as_json(d_heap, d_cur, dump_opts))
    /\ d_native = MaxNative
    /\ \E e \in {"stack", "crash"} : Raise(e)
    /\ UNCHANGED <<d_entry, d_heap, d_obj, d_cur, d_depth, d_visited, d_stack, d_doc, d_alloc,
                   d_result, d_file, l_value, l_error, l_depth, d_native>>
    /\ UNCHANGED <<optVars, escVars, cacheVars, numVars>>

\* dump_ruby_object, default: the fallback to to_s
DumpToS ==
    /\ d_pc = "call"
    /\ TYPE(d_heap, d_cur) = "T_OBJECT"
    /\ ~is_time_like(d_heap, d_cur)
    /\ NIL_P(try_as_json(d_heap, d_cur, dump_opts))
    /\ d_doc' = Append(d_doc, dump_string(Str(RbToS(d_heap, d_cur))))
    /\ d_pc' = "ret"
    /\ UNCHANGED <<d_entry, d_heap, d_obj, d_cur, d_depth, d_visited, d_stack, d_alloc,
                   d_error, d_result, d_file, l_value, l_error, l_depth, d_native>>
    /\ UNCHANGED <<optVars, escVars, cacheVars, numVars>>

\* yyjson_ruby_write_string from yyjson_mut_doc_set_root on
WriteString ==
    /\ d_pc = "ret"
    /\ d_stack = <<>>
    /\ d_entry = "dump"
    /\ LET w == yyjson_mut_write_opts(d_doc, WriteFlags(dump_opts))
       IN  IF ~w.ok
           THEN d_error' = "write" /\ UNCHANGED d_result
           ELSE /\ d_result' = IF dump_opts.escape_html THEN escape_html_entities(w.json)
                               ELSE w.json
                /\ UNCHANGED d_error
    /\ d_alloc' = "freed"
    /\ d_pc' = "done"
    /\ UNCHANGED <<d_entry, d_heap, d_obj, d_cur, d_depth, d_visited, d_stack, d_doc,
                   d_file, l_value, l_error, l_depth, d_native>>
    /\ UNCHANGED <<optVars, escVars, cacheVars, numVars>>

\* yyjson_ruby_write_file from yyjson_mut_doc_set_root on; the file may fail
\* to be written
WriteFile ==
    /\ d_pc = "ret"
    /\ d_stack = <<>>
    /\ d_entry = "dump_file"
    /\ LET w == yyjson_mut_write_opts(d_doc, WriteFlags(dump_opts))
       IN  \E io_ok \in BOOLEAN :
              IF ~w.ok \/ ~io_ok
              THEN d_error' = "write" /\ UNCHANGED d_file
              ELSE d_file' = w.json /\ UNCHANGED d_error
    /\ d_alloc' = "freed"
    /\ d_pc' = "done"
    /\ UNCHANGED <<d_entry, d_heap, d_obj, d_cur, d_depth, d_visited, d_stack, d_doc,
                   d_result, l_value, l_error, l_depth, d_native>>
    /\ UNCHANGED <<optVars, escVars, cacheVars, numVars>>

\* YYJson.load of the text a dump returned
LoadBack ==
    /\ d_pc = "done"
    /\ d_entry = "dump"
    /\ d_error = "none"
    /\ Len(d_result) <= MaxLoadLen
    /\ \E h \in LoadBackHashes :
          /\ popts_hash' = h
          /\ parse_opts' = yyjson_load_options(h)
          /\ LET r == yyjson_parse_string(d_result, yyjson_load_options(h))
             IN  l_value' = r.result /\ l_error' = r.raise /\ l_depth' = r.depth
    /\ d_pc' = "loaded"
    /\ UNCHANGED <<d_entry, d_heap, d_obj, d_cur, d_depth, d_visited, d_stack, d_doc,
                   d_alloc, d_error, d_result, d_file, d_native>>
    /\ UNCHANGED <<opts_hash, dump_opts, opt_pc, escVars, cacheVars, numVars>>

\* the calls are over and their locals gone
DumpReturn ==
    /\ d_pc \in {"done", "loaded"}
    /\ d_pc' = "idle"
    /\ d_entry' = "none"
    /\ d_heap' = <<>>
    /\ d_obj' = Qnil
    /\ d_cur' = Qnil
    /\ d_depth' = 0
    /\ d_visited' = {}
    /\ d_stack' = <<>>
    /\ d_doc' = <<>>
    /\ d_alloc' = "none"
    /\ d_error' = "none"
    /\ d_result' = <<>>
    /\ d_file' = <<>>
    /\ l_value' = Qnil
    /\ l_error' = "none"
    /\ l_depth' = 0
    /\ d_native' = 0
    /\ opts_hash' = Qnil
    /\ dump_opts' = DumpDefaults
    /\ popts_hash' = Qnil
    /\ parse_opts' = default_parse_opts
    /\ UNCHANGED <<opt_pc, escVars, cacheVars, numVars>>

DumpNext ==
    \/ Dump \/ DumpFile \/ DumpScalar \/ DumpFloat
    \/ DumpArray \/ ArrayItem \/ ArrayAppend \/ ArrayReturn
    \/ DumpHash \/ HashIter \/ HashAdd \/ HashReturn
    \/ DumpTime \/ DumpAsJson \/ DumpAsJsonOverflow \/ DumpToS
    \/ WriteString \/ WriteFile \/ LoadBack \/ DumpReturn

(***************************************************************************)
(* One build_num call on a number node of a document.                      *)
(***************************************************************************)
\* how far past the ends of SMALL_INT_MIN..SMALL_INT_MAX the small nodes go
NumMargin == 2

\* 2^63 - 1, the largest int64_t
INT64_MAX == <<32767, 65535, 65535, 65535>>

\* the words next to the limits of the conversions
EdgeWords ==
    UNION {{FIXNUM_MAX(b), WordAdd(FIXNUM_MAX(b), WordOfNat(1)),
            FIXNUM_MIN(b), WordSub(FIXNUM_MIN(b), WordOfNat(1))} : b \in BOOLEAN}
    \cup {INT64_MAX, WordNot(INT64_MAX), WordOfInt(-1), WordOfNat(LimbBase)}

\* the signed payloads: a reader stores the negative integers as sint, a
\* document built otherwise any int64_t
SintWords ==
    {WordOfInt(n) : n \in (SMALL_INT_MIN - NumMargin)..(SMALL_INT_MAX + NumMargin)}
    \cup EdgeWords

\* the unsigned payloads, among them the words that read as -10..-1 when
\* taken for signed
UintWords ==
    {WordOfNat(n) : n \in 0..(SMALL_INT_MAX + NumMargin)}
    \cup {WordOfInt(n) : n \in (SMALL_INT_MIN - NumMargin)..(-1)}
    \cup EdgeWords

\* the doubles of the real nodes
RealNums ==
    {[cls |-> "fin", v |-> x] : x \in {-15, 0, 10, 1000}}
    \cup {[cls |-> c, v |-> 0] : c \in {"nan", "inf", "ninf"}}

\* the number nodes: the payload is a union, of which the subtype says how
\* it is read
NumNodes ==
    {[sub |-> "sint", n |-> w, d |-> [cls |-> "fin", v |-> 0]] : w \in SintWords}
    \cup {[sub |-> "uint", n |-> w, d |-> [cls |-> "fin", v |-> 0]] : w \in UintWords}
    \cup {[sub |-> "real", n |-> <<0, 0, 0, 0>>, d |-> d] : d \in RealNums}

\* build_num(v)
BuildNum ==
    /\ n_pc = "idle"
    /\ \E node \in NumNodes, b \in BOOLEAN :
          LET r == build_num_word(node.sub, node.n, node.d, b)
          IN  /\ n_long64' = b
              /\ n_sub' = node.sub
              /\ n_num' = node.n
              /\ n_real' = node.d
              /\ n_index' = r.idx
              /\ n_value' = r.val
    /\ n_pc' = "built"
    /\ UNCHANGED <<n_out, n_raise>>
    /\ UNCHANGED <<optVars, escVars, cacheVars, dumpVars>>

\* dump_ruby_object on the Integer built: dump_integer
NumDump ==
    /\ n_pc = "built"
    /\ n_value.t = "integer"
    /\ LET r == dump_integer_word(n_value, n_long64)
       IN  /\ n_out' = [sub |-> r.sub, n |-> r.n]
           /\ n_raise' = r.raise
    /\ n_pc' = "dumped"
    /\ UNCHANGED <<n_long64, n_sub, n_num, n_real, n_index, n_value>>
    /\ UNCHANGED <<optVars, escVars, cacheVars, dumpVars>>

\* the caller takes the VALUE, or what the dump of it gave
NumReturn ==
    /\ n_pc \in {"built", "dumped"}
    /\ n_pc' = "idle"
    /\ n_long64' = TRUE
    /\ n_sub' = "sint"
    /\ n_num' = <<0, 0, 0, 0>>
    /\ n_real' = [cls |-> "fin", v |-> 0]
    /\ n_index' = <<>>
    /\ n_value' = Qnil
    /\ n_out' = [sub |-> "none", n |-> <<0, 0, 0, 0>>]
    /\ n_raise' = "none"
    /\ UNCHANGED <<optVars, escVars, cacheVars, dumpVars>>

NumNext == BuildNum \/ NumDump \/ NumReturn

(***************************************************************************)
(* Specifications                                                          *)
(***************************************************************************)
\* no call in progress
Idle ==
    /\ opts_hash = Qnil
    /\ dump_opts = DumpDefaults
    /\ popts_hash = Qnil
    /\ parse_opts = default_parse_opts
    /\ opt_pc = "idle"
    /\ esc_pc = "idle"
    /\ esc_json = <<>>
    /\ escape_count = 0
    /\ esc_size = 0
    /\ esc_result = <<>>
    /\ esc_null = FALSE
    /\ c_pc = "idle"
    /\ symbolize = FALSE
    /\ str_cache = <<>>
    /\ sym_cache = <<>>
    /\ next_id = 1
    /\ key_log = <<>>
    /\ fill_todo = 0
    /\ have_interned = FALSE
    /\ char_signed = FALSE
    /\ d_pc = "idle"
    /\ d_entry = "none"
    /\ d_heap = <<>>
    /\ d_obj = Qnil
    /\ d_cur = Qnil
    /\ d_depth = 0
    /\ d_visited = {}
    /\ d_stack = <<>>
    /\ d_doc = <<>>
    /\ d_alloc = "none"
    /\ d_error = "none"
    /\ d_result = <<>>
    /\ d_file = <<>>
    /\ l_value = Qnil
    /\ l_error = "none"
    /\ l_depth = 0
    /\ d_native = 0
    /\ n_pc = "idle"
    /\ n_long64 = TRUE
    /\ n_sub = "sint"
    /\ n_num = <<0, 0, 0, 0>>
    /\ n_real = [cls |-> "fin", v |-> 0]
    /\ n_index = <<>>
    /\ n_value = Qnil
    /\ n_out = [sub |-> "none", n |-> <<0, 0, 0, 0>>]
    /\ n_raise = "none"

SpecOpts == Idle /\ [][OptNext]_vars

SpecEscape == Idle /\ [][EscNext]_vars

SpecCache == CacheInit /\ [][CacheNext]_vars

SpecDump == Idle /\ [][DumpNext]_vars

\* the calls of SpecDump, each going on until it returns or raises
SpecDumpFair == Idle /\ [][DumpNext]_vars /\ WF_vars(DumpNext)

SpecNum == Idle /\ [][NumNext]_vars

(***************************************************************************)
(* Claims about the option/mode resolver                                   *)
(***************************************************************************)
Supplied(v) == v # Qnil

\* C3: every explicitly supplied dump field (allow_nan, escape_slash,
\* escape_html, pretty, indent) has its explicit value in the resolved
\* DumpOptions, whatever the mode's bundle says (pretty is read with the
\* documented rule that a supplied indent > 0 implies pretty).
C3_ExplicitDumpFieldsWin ==
    (opt_pc = "dump" /\ opts_hash # Qnil) =>
        /\ Supplied(opts_hash.allow_nan) =>
               dump_opts.allow_nan = RTEST(opts_hash.allow_nan)
        /\ Supplied(opts_hash.escape_slash) =>
               dump_opts.escape_slash = RTEST(opts_hash.escape_slash)
        /\ Supplied(opts_hash.escape_html) =>
               dump_opts.escape_html = RTEST(opts_hash.escape_html)
        /\ Supplied(opts_hash.indent) =>
               dump_opts.indent = NUM2INT(opts_hash.indent)
        /\ (Supplied(opts_hash.pretty) /\
             ~(Supplied(opts_hash.indent) /\ NUM2INT(opts_hash.indent) > 0)) =>
               dump_opts.pretty = RTEST(opts_hash.pretty)

\* the case of C3: a mode with a bundle and an explicit field against it
C3_Witness ==
    /\ opt_pc = "dump" /\ opts_hash # Qnil
    /\ opts_hash.mode = Sym("strict")
    /\ opts_hash.allow_nan = Qtrue
    /\ opts_hash.escape_slash = Qfalse

\* the parse-side bundle of a mode argument, as the claim tabulates it
ParseBundle(m) ==
    IF m = Sym("strict")
    THEN [allow_nan |-> FALSE, allow_comments |-> FALSE, symbolize_names |-> FALSE]
    ELSE IF m = Sym("rails")
    THEN [allow_nan |-> TRUE, allow_comments |-> TRUE, symbolize_names |-> TRUE]
    ELSE [allow_nan |-> TRUE, allow_comments |-> TRUE, symbolize_names |-> FALSE]

ParseModeOf(m) ==
    CASE m = Sym("strict") -> "MODE_STRICT"
      [] m = Sym("rails")  -> "MODE_RAILS"
      [] m = Sym("object") -> "MODE_OBJECT"
      [] m = Sym("custom") -> "MODE_CUSTOM"
      [] OTHER             -> "MODE_COMPAT"

Overlay(arg, dflt) == IF Supplied(arg) THEN RTEST(arg) ELSE dflt

\* C4: the resolved ParseOptions are the mode's bundle (freeze false and
\* max_nesting 100 in every mode) overlaid with the explicitly supplied
\* fields, for load/parse and for load_file.
C4_ParseOptionsResolved ==
    (opt_pc \in {"load", "load_file"}) =>
        LET h == IF popts_hash = Qnil
                 THEN [mode |-> Qnil, symbolize_names |-> Qnil, freeze |-> Qnil,
                       allow_nan |-> Qnil, allow_comments |-> Qnil,
                       max_nesting |-> Qnil]
                 ELSE popts_hash
            b == ParseBundle(h.mode)
        IN  /\ parse_opts.allow_nan = Overlay(h.allow_nan, b.allow_nan)
            /\ parse_opts.allow_comments = Overlay(h.allow_comments, b.allow_comments)
            /\ parse_opts.symbolize_names = Overlay(h.symbolize_names, b.symbolize_names)
            /\ parse_opts.freeze = Overlay(h.freeze, FALSE)
            /\ parse_opts.max_nesting =
                  (IF Supplied(h.max_nesting) THEN NUM2INT(h.max_nesting) ELSE 100)
            /\ parse_opts.mode = ParseModeOf(h.mode)

\* the case of C4: explicit fields against the bundles of Strict and Rails
C4_Witness ==
    /\ opt_pc = "load" /\ popts_hash # Qnil
    /\ popts_hash.mode = Sym("strict")
    /\ popts_hash.allow_nan = Qtrue
    /\ popts_hash.symbolize_names = Qtrue
    /\ parse_opts.allow_nan /\ parse_opts.symbolize_names
    /\ ~parse_opts.allow_comments

(***************************************************************************)
(* Claims about escape_html_entities                                       *)
(***************************************************************************)
\* the replacement the claim gives for one byte
C9_Replacement(c) ==
    IF c = 60 THEN <<92, 117, 48, 48, 51, 99>>
    ELSE IF c = 62 THEN <<92, 117, 48, 48, 51, 101>>
    ELSE IF c = 38 THEN <<92, 117, 48, 48, 50, 54>>
    ELSE IF c = 39 THEN <<92, 117, 48, 48, 50, 55>>
    ELSE <<c>>

\* the result is p's replacements followed by the rewriting of the rest
RECURSIVE C9_IsRewriteOf(_, _)
C9_IsRewriteOf(out, t) ==
    IF t = <<>> THEN out = <<>>
    ELSE LET r == C9_Replacement(Head(t))
         IN  /\ Len(out) >= Len(r)
             /\ SubSeq(out, 1, Len(r)) = r
             /\ C9_IsRewriteOf(SubSeq(out, Len(r) + 1, Len(out)), Tail(t))

C9_Specials(t) == Cardinality({i \in 1..Len(t) : t[i] \in {60, 62, 38, 39}})

\* C9: the returned text is t with each '<', '>', '&', apostrophe replaced by
\* its 6-byte \u00XX sequence and every other byte copied in order; its
\* length is len(t) + 5 * (number of those bytes), which is exactly the size
\* of the buffer allocated after the counting pass; it contains none of the
\* four bytes, so escaping it again changes nothing.
C9_EscapeRewrite ==
    (esc_pc = "done" /\ ~esc_null) =>
        /\ C9_IsRewriteOf(esc_result, esc_json)
        /\ Len(esc_result) = Len(esc_json) + 5 * C9_Specials(esc_json)
        /\ Len(esc_result) = esc_size
        /\ \A i \in 1..Len(esc_result) : esc_result[i] \notin {60, 62, 38, 39}
        /\ escape_html_entities(esc_result) = esc_result

\* the case of C9: a text with an apostrophe and another special byte rewritten
C9_Witness ==
    /\ esc_pc = "done" /\ ~esc_null
    /\ \E i, j \in 1..Len(esc_json) : esc_json[i] = 39 /\ esc_json[j] = 60
    /\ \E i \in 1..Len(esc_json) : esc_json[i] = 97
    /\ Len(esc_result) = Len(esc_json) + 10

(***************************************************************************)
(* Claims about the interning cache                                        *)
(***************************************************************************)
\* the cache the call in progress uses
C7_Cache == IF symbolize THEN sym_cache ELSE str_cache

\* an eligible key: 1 to 55 bytes, the first an ASCII letter
C7_Eligible(k) ==
    Len(k) >= 1 /\ Len(k) <= 55 /\ k[1] \in ((65..90) \cup (97..122))

C7_Cached(k) == \E n \in 1..Len(C7_Cache) : C7_Cache[n].ptr = k

C7_SameKey(i, j) ==
    key_log[i].key = key_log[j].key /\ C7_Eligible(key_log[i].key)

\* C7 as stated: within one import call any two occurrences of the same
\* eligible key get the identical atom, however many distinct keys the
\* document has, for string keys as for symbol keys.
C7_InternIdempotent ==
    \A i, j \in 1..Len(key_log) :
        C7_SameKey(i, j) => key_log[i].val = key_log[j].val

\* C7 amended: every occurrence of an eligible key gets an atom spelling that
\* key; two occurrences get the identical atom when the key has an entry in
\* the cache (it was first met while fewer than 63 keys were cached), when the
\* keys are symbols, or when strings come from the interned-string table;
\* otherwise they are equal in value only.
C7_InternIdempotentWhileCached ==
    \A i, j \in 1..Len(key_log) :
        C7_SameKey(i, j) =>
            /\ key_log[i].val.v = key_log[i].key
            /\ key_log[i].val.v = key_log[j].val.v
            /\ (C7_Cached(key_log[i].key) \/ symbolize \/ have_interned)
                   => key_log[i].val = key_log[j].val

\* the case of C7: a cached string key met twice after other keys, some of
\* them sharing a hash, in a build without interned strings
C7_Witness ==
    /\ c_pc = "building" /\ ~symbolize /\ ~have_interned
    /\ Len(str_cache) >= 2
    /\ \E i, j \in 1..Len(key_log) :
           i < j /\ C7_SameKey(i, j) /\ C7_Cached(key_log[i].key)

\* the order of two different keys of one length as the comparison sees
\* them: the first differing byte decides, as an unsigned byte inside the
\* whole 8-byte words and as a plain char after them
C8_BytesLess(a, b) ==
    LET n == Len(a)
        d == CHOOSE p \in 1..n : a[p] # b[p] /\ \A q \in 1..(p - 1) : a[q] = b[q]
    IN  IF d <= 8 * (n \div 8) THEN a[d] < b[d] ELSE CharOf(a[d]) < CharOf(b[d])

\* (hash, length, bytes) of e1 strictly before that of e2
C8_EntryLess(e1, e2) ==
    \/ HashLess(e1.hash, e2.hash)
    \/ /\ e1.hash = e2.hash
       /\ \/ e1.len < e2.len
          \/ e1.len = e2.len /\ e1.ptr # e2.ptr /\ C8_BytesLess(e1.ptr, e2.ptr)

C8_Sorted(c) ==
    /\ Len(c) <= 63
    /\ \A n \in 1..(Len(c) - 1) : C8_EntryLess(c[n], c[n + 1])
    /\ \A m, n \in 1..Len(c) : m # n => c[m].ptr # c[n].ptr
    /\ \A n \in 1..Len(c) : c[n].len = Len(c[n].ptr) /\ c[n].val.v = c[n].ptr

\* d is c, or c with one entry put between two of its entries
C8_Kept(c, d) ==
    \/ d = c
    \/ /\ Len(d) = Len(c) + 1
       /\ \E p \in 0..Len(c) :
              /\ SubSeq(d, 1, p) = SubSeq(c, 1, p)
              /\ SubSeq(d, p + 2, Len(d)) = SubSeq(c, p + 1, Len(c))

C1_IsChain(heap) ==
    \A i \in 1..Len(heap) :
        /\ heap[i].t \in {"array", "hash"}
        /\ heap[i].items = IF i < Len(heap) THEN <<Ref(i + 1)>> ELSE <<>>

\* C1: with default options, exporting containers nested exactly 100 levels
\* deep succeeds and exporting containers nested 101 levels deep (or more)
\* fails with the nesting GenerateError.
C1_DepthBoundary ==
    (d_pc = "done" /\ d_entry = "dump" /\ opts_hash = Qnil /\ d_obj = Ref(1)
        /\ C1_IsChain(d_heap)) =>
        /\ Len(d_heap) <= 100 => (d_error = "none" /\ d_result # <<>>)
        /\ Len(d_heap) >= 101 => d_error = "nesting"

\* the case of C1: the export of 101 nested containers is over
C1_Witness ==
    /\ d_pc = "done" /\ d_entry = "dump" /\ opts_hash = Qnil /\ d_obj = Ref(1)
    /\ C1_IsChain(d_heap)
    /\ Len(d_heap) = 101

\* what is exported for v: for an object with an as_json result, that result
RECURSIVE C2_Exported(_, _)
C2_Exported(heap, v) ==
    IF v.t = "ref" /\ heap[v.id].t = "object" /\ heap[v.id].rj /\ heap[v.id].aj # Qnil
    THEN C2_Exported(heap, heap[v.id].aj)
    ELSE v

C2_IsContainer(heap, v) == v.t = "ref" /\ heap[v.id].t \in {"array", "hash"}

\* the arrays and hashes exported as members of container i
C2_Members(heap, i) ==
    {C2_Exported(heap, heap[i].items[n]).id :
        n \in {m \in 1..Len(heap[i].items) :
                  C2_IsContainer(heap, C2_Exported(heap, heap[i].items[m]))}}

\* S and everything inside its containers
RECURSIVE C2_Inside(_, _)
C2_Inside(heap, S) ==
    LET T == S \cup UNION {C2_Members(heap, i) : i \in S}
    IN  IF T = S THEN S ELSE C2_Inside(heap, T)

\* some container met when exporting v lies inside itself
C2_OwnAncestor(heap, v) ==
    /\ C2_IsContainer(heap, C2_Exported(heap, v))
    /\ \E c \in C2_Inside(heap, {C2_Exported(heap, v).id}) :
          c \in C2_Inside(heap, C2_Members(heap, c))

\* how many times a container is entered when exporting v, v free of cycles
RECURSIVE C2_Entries(_, _)
RECURSIVE C2_EntriesOf(_, _, _)
C2_EntriesOf(heap, items, n) ==
    IF n > Len(items) THEN 0
    ELSE C2_Entries(heap, items[n]) + C2_EntriesOf(heap, items, n + 1)

C2_Entries(heap, v) ==
    IF C2_IsContainer(heap, C2_Exported(heap, v))
    THEN 1 + C2_EntriesOf(heap, heap[C2_Exported(heap, v).id].items, 1)
    ELSE 0

C2_Opened(doc) == Cardinality({n \in 1..Len(doc) : doc[n].k \in {"arr", "obj"}})

\* C2: for a value with fewer containers than the depth limit, and no Float
\* refused on the way, the export fails with the circular-reference error
\* exactly when some container lies inside itself; otherwise it succeeds and
\* every container is exported once for each place it is referenced from.
C2_CycleDetection ==
    (d_pc = "done" /\ Len(d_heap) < MAX_NESTING_DEPTH
        /\ d_error \notin {"nan", "write", "stack", "crash"}) =>
        /\ d_error = "circular" <=> C2_OwnAncestor(d_heap, d_obj)
        /\ ~C2_OwnAncestor(d_heap, d_obj) =>
              /\ d_error = "none"
              /\ C2_Opened(d_doc) = C2_Entries(d_heap, d_obj)
              /\ d_depth = 0 /\ d_visited = {}

\* the case of C2: one array referenced twice by another has been exported
C2_Witness ==
    /\ d_pc = "done" /\ d_error = "none"
    /\ Len(d_heap) = 2 /\ d_obj = Ref(1)
    /\ d_heap[1].items = <<Ref(2), Ref(2)>>
    /\ d_heap[2].items = <<Fix(1)>>

C5_ModeArg == IF opts_hash = Qnil THEN Qnil ELSE opts_hash.mode

C5_NoOverride ==
    \/ opts_hash = Qnil
    \/ /\ opts_hash.allow_nan = Qnil
       /\ opts_hash.escape_slash = Qnil
       /\ opts_hash.escape_html = Qnil

C5_NonFinite(v) == v.t = "float" /\ v.cls # "fin"

\* the value dumped is a non-finite Float or has one as a member
C5_HasNonFinite ==
    \/ C5_NonFinite(d_obj)
    \/ /\ d_obj.t = "ref"
       /\ \E n \in 1..Len(d_heap[d_obj.id].items) : C5_NonFinite(d_heap[d_obj.id].items[n])

\* the text the call produced
C5_Text == IF d_entry = "dump" THEN d_result ELSE d_file

C5_NoRawHtml(text) == \A n \in 1..Len(text) : text[n] \notin {60, 62, 38, 39}

\* C5: without explicit overrides, mode Strict resolves allow_nan = false and
\* escape_slash = true and a NaN or infinite Float then fails with the Float
\* GenerateError; Compat, Object or no mode resolve allow_nan = true,
\* escape_slash = false, escape_html = false; Rails resolves escape_html =
\* true with the other two at the baseline, and the text a call dumps under
\* Rails has no raw '<', '>', '&' or apostrophe.
C5_DumpModeDefaults ==
    (d_pc \notin {"idle"} /\ C5_NoOverride) =>
        /\ C5_ModeArg = Sym("strict") =>
              /\ ~dump_opts.allow_nan /\ dump_opts.escape_slash
              /\ (d_pc = "done" /\ C5_HasNonFinite) => d_error = "nan"
        /\ C5_ModeArg \in {Qnil, Sym("compat"), Sym("object")} =>
              dump_opts.allow_nan /\ ~dump_opts.escape_slash /\ ~dump_opts.escape_html
        /\ C5_ModeArg = Sym("rails") =>
              /\ dump_opts.escape_html /\ dump_opts.allow_nan /\ ~dump_opts.escape_slash
              /\ (d_pc = "done" /\ d_error = "none") => C5_NoRawHtml(C5_Text)

\* the case of C5: a call under mode Rails alone has produced a text from a
\* value with '<' in it
C5_Witness ==
    /\ d_pc = "done" /\ d_error = "none"
    /\ C5_NoOverride /\ C5_ModeArg = Sym("rails")
    /\ \E n \in 1..Len(d_doc) : 60 \in {d_doc[n].s[m] : m \in 1..Len(d_doc[n].s)}

\* what dump / generate returns for a document and options
C10_DumpText(doc, opts) ==
    IF opts.escape_html
    THEN escape_html_entities(yyjson_mut_write_opts(doc, WriteFlags(opts)).json)
    ELSE yyjson_mut_write_opts(doc, WriteFlags(opts)).json

\* C10: with escape_html resolved to true, the text dump_file writes is the
\* text dump / generate returns for the same value and options: it has no
\* raw '<', '>', '&' or apostrophe.
C10_EscapeHtmlEveryEntry ==
    (d_pc = "done" /\ d_entry = "dump_file" /\ d_error = "none" /\ dump_opts.escape_html) =>
        /\ d_file = C10_DumpText(d_doc, dump_opts)
        /\ C5_NoRawHtml(d_file)

\* the case of C10: dump_file has written, with escape_html, a value with
\* one of the four characters in it
C10_Witness ==
    /\ d_pc = "done" /\ d_entry = "dump_file" /\ d_error = "none"
    /\ dump_opts.escape_html
    /\ \E n \in 1..Len(d_doc) :
          {60, 62, 38, 39} \cap {d_doc[n].s[m] : m \in 1..Len(d_doc[n].s)} # {}

(***************************************************************************)
(* Claims about the round trip                                             *)
(***************************************************************************)
PArr(vals)   == [t |-> "array", v |-> vals]
PHash(pairs) == [t |-> "hash", v |-> pairs]

\* a built value without identities and frozen flags
RECURSIVE C6_Plain(_)
C6_Plain(val) ==
    CASE val.t = "string" -> Str(val.v)
      [] val.t = "array"  -> PArr([n \in 1..Len(val.v) |-> C6_Plain(val.v[n])])
      [] val.t = "hash"   ->
            PHash([n \in 1..Len(val.v) |-> <<C6_Plain(val.v[n][1]), C6_Plain(val.v[n][2])>>])
      [] OTHER            -> val

\* the dumped value as it is: atoms made strings unless keys are symbolized
RECURSIVE C6_Same(_, _, _)
C6_Same(heap, v, sym) ==
    CASE v.t = "symbol" -> IF sym THEN v ELSE Str(v.v)
      [] v.t = "ref"    ->
            (CASE heap[v.id].t = "array" ->
                    PArr([n \in 1..Len(heap[v.id].items) |->
                             C6_Same(heap, heap[v.id].items[n], sym)])
               [] heap[v.id].t = "hash"  ->
                    PHash([n \in 1..Len(heap[v.id].items) |->
                             <<C6_Same(heap, heap[v.id].keys[n], sym),
                               C6_Same(heap, heap[v.id].items[n], sym)>>])
               [] OTHER -> v)
      [] OTHER          -> v

C6_KeyText(heap, k) ==
    CASE k.t = "string" -> k.v
      [] k.t = "symbol" -> k.v
      [] k.t = "fixnum" -> IntToS(k.v)
      [] k.t = "nil"    -> <<>>
      [] k.t = "ref"    -> heap[k.id].s

\* one pair for each key, at the place of its first pair and with the value
\* of its last
RECURSIVE C6_Merge(_, _)
C6_Merge(pairs, n) ==
    IF n > Len(pairs) THEN <<>>
    ELSE (IF \E m \in 1..(n - 1) : pairs[m][1] = pairs[n][1] THEN <<>>
          ELSE LET last == CHOOSE m \in n..Len(pairs) :
                              /\ pairs[m][1] = pairs[n][1]
                              /\ \A q \in (m + 1)..Len(pairs) : pairs[q][1] # pairs[n][1]
               IN  <<<<pairs[n][1], pairs[last][2]>>>>)
         \o C6_Merge(pairs, n + 1)

\* what comes back for v
RECURSIVE C6_Image(_, _, _)
C6_Image(heap, v, sym) ==
    CASE v.t = "symbol" -> Str(v.v)
      [] v.t = "ref"    ->
            (CASE heap[v.id].t = "array" ->
                    PArr([n \in 1..Len(heap[v.id].items) |->
                             C6_Image(heap, heap[v.id].items[n], sym)])
               [] heap[v.id].t = "hash"  ->
                    PHash(C6_Merge(
                        [n \in 1..Len(heap[v.id].items) |->
                            << IF sym THEN Sym(C6_KeyText(heap, heap[v.id].keys[n]))
                               ELSE Str(C6_KeyText(heap, heap[v.id].keys[n])),
                               C6_Image(heap, heap[v.id].items[n], sym) >>], 1))
               [] heap[v.id].t = "time"  -> Str(heap[v.id].s)
               [] OTHER ->
                    IF heap[v.id].rj /\ heap[v.id].aj # Qnil
                    THEN C6_Image(heap, heap[v.id].aj, sym)
                    ELSE Str(heap[v.id].s))
      [] OTHER          -> v

C6_DocNonFinite == \E n \in 1..Len(d_doc) : d_doc[n].k \in {"nan", "inf", "ninf"}

C11_Limit ==
    IF opts_hash = Qnil THEN 100
    ELSE IF "max_nesting" \notin DOMAIN opts_hash THEN 100
    ELSE IF opts_hash.max_nesting = Qnil THEN 100
    ELSE opts_hash.max_nesting.v

\* C11: the export limit is the max_nesting of the call, 100 when none is
\* given: with a limit n > 0 the export of nested containers fails with the
\* nesting error exactly when they are nested deeper than n, and with
\* max_nesting = 0 it succeeds at any depth.
C11_ConfigurableLimit ==
    (d_pc = "done" /\ d_entry = "dump" /\ d_obj = Ref(1) /\ C1_IsChain(d_heap)) =>
        IF C11_Limit = 0 THEN d_error = "none"
        ELSE d_error = "nesting" <=> Len(d_heap) > C11_Limit

\* the case of C11: containers nested two deep have been exported by a call
\* given max_nesting = 1
C11_Witness ==
    /\ d_pc = "done" /\ d_entry = "dump" /\ d_obj = Ref(1) /\ C1_IsChain(d_heap)
    /\ opts_hash # Qnil
    /\ C11_Limit = 1
    /\ Len(d_heap) = 2

\* C12: no call ends with its destination document allocated and not
\* released: when the export raises (nesting, circular reference, non-finite
\* Float) the document of the call has been released before the caller sees
\* the error.
C12_ReleasedOnFailure ==
    d_pc = "done" => d_alloc # "alive"

\* the case of C12: a dump call has ended with an error raised by the export
C12_Witness ==
    /\ d_pc = "done"
    /\ d_error \in {"nesting", "circular", "nan"}

(***************************************************************************)
(* Claims about custom serialization                                       *)
(***************************************************************************)
\* the JSON text of a value made of nil, booleans, Integers, plain strings,
\* arrays, hashes with plain string keys and objects, where an object with
\* the capability stands for what its as_json returns; so does an Array or a
\* Hash with the capability when basic is set
RECURSIVE C13_Text(_, _, _)
RECURSIVE C13_Join(_, _, _, _)
C13_Join(heap, o, n, basic) ==
    IF n > Len(o.items) THEN <<>>
    ELSE (IF n > 1 THEN <<44>> ELSE <<>>)
         \o (IF o.t = "hash" THEN <<34>> \o o.keys[n].v \o <<34, 58>> ELSE <<>>)
         \o C13_Text(heap, o.items[n], basic)
         \o C13_Join(heap, o, n + 1, basic)

C13_Text(heap, v, basic) ==
    CASE v.t = "nil"    -> <<110, 117, 108, 108>>
      [] v.t = "true"   -> <<116, 114, 117, 101>>
      [] v.t = "false"  -> <<102, 97, 108, 115, 101>>
      [] v.t = "fixnum" -> IntToS(v.v)
      [] v.t = "string" -> <<34>> \o v.v \o <<34>>
      [] v.t = "ref"    ->
            IF heap[v.id].rj /\ (basic \/ heap[v.id].t = "object")
            THEN C13_Text(heap, heap[v.id].aj, basic)
            ELSE IF heap[v.id].t = "array"
            THEN <<91>> \o C13_Join(heap, heap[v.id], 1, basic) \o <<93>>
            ELSE IF heap[v.id].t = "hash"
            THEN <<123>> \o C13_Join(heap, heap[v.id], 1, basic) \o <<125>>
            ELSE <<34>> \o heap[v.id].s \o <<34>>

\* an object with the capability is dumped, alone or inside an array
C13_Case ==
    /\ d_pc = "done" /\ d_entry = "dump"
    /\ Len(d_heap) = 3
    /\ d_heap[1].t = "object" /\ d_heap[1].rj
    /\ d_obj \in {Ref(1), Ref(3)}

\* C13: an object with the as_json capability is exported as what as_json
\* returned is exported, whatever was returned: nil, false, an Integer, a
\* String or an Array.
C13_CustomSerialization ==
    C13_Case => (d_error = "none" /\ d_result = C13_Text(d_heap, d_obj, FALSE))

\* the case of C13: an object whose as_json returns nil has been dumped
C13_Witness ==
    /\ C13_Case
    /\ d_heap[1].aj = Qnil

\* an Array or a Hash with an as_json of its own is dumped, alone or inside
\* an array
C14_Case ==
    /\ d_pc = "done" /\ d_entry = "dump"
    /\ Len(d_heap) = 3
    /\ d_heap[1].t \in {"array", "hash"} /\ d_heap[1].rj
    /\ d_obj \in {Ref(1), Ref(3)}

C14_ModeArg == IF opts_hash = Qnil THEN Qnil ELSE opts_hash.mode

\* C14: the as_json of an Array or a Hash is skipped in modes Compat (also
\* when no mode is given) and Rails, where the value is exported as it is;
\* in modes Strict, Object and Custom it is invoked and its result exported.
C14_SkipOnlyInCompatRails ==
    C14_Case =>
        /\ d_error = "none"
        /\ C14_ModeArg \in {Qnil, Sym("compat"), Sym("rails")} =>
              d_result = C13_Text(d_heap, d_obj, FALSE)
        /\ C14_ModeArg \in {Sym("strict"), Sym("object"), Sym("custom")} =>
              d_result = C13_Text(d_heap, d_obj, TRUE)

\* the case of C14: an Array with an as_json of its own has been dumped in
\* mode Strict
C14_Witness ==
    /\ C14_Case
    /\ d_heap[1].t = "array"
    /\ C14_ModeArg = Sym("strict")

(***************************************************************************)
(* Claims about Floats                                                     *)
(***************************************************************************)
\* the Floats exported with v: v itself, or the Float members of the
\* containers exported with it
C15_Floats(heap, v) ==
    IF C2_Exported(heap, v).t = "float" THEN {C2_Exported(heap, v)}
    ELSE IF C2_IsContainer(heap, C2_Exported(heap, v))
    THEN UNION {{C2_Exported(heap, heap[c].items[n]) :
                    n \in {m \in 1..Len(heap[c].items) :
                              C2_Exported(heap, heap[c].items[m]).t = "float"}} :
                 c \in C2_Inside(heap, {C2_Exported(heap, v).id})}
    ELSE {}

C15_NonFinite(heap, v) == \E f \in C15_Floats(heap, v) : f.cls # "fin"

\* the real values of the document
C15_Reals(doc) ==
    {Flo(IF doc[n].k = "real" THEN "fin" ELSE doc[n].k, doc[n].n) :
        n \in {m \in 1..Len(doc) : doc[m].k \in {"real", "nan", "inf", "ninf"}}}

\* C15: the export of a value with a NaN or infinite Float in it, at any
\* depth, raises the Float GenerateError when allow_nan is resolved false;
\* when it is resolved true no Float is refused and each Float is a real
\* value of the document; a value whose Floats are all finite is never
\* refused, and the document is then written.
C15_NonFiniteFloats ==
    (d_pc = "done" /\ d_error \notin {"circular", "nesting", "stack", "crash"}) =>
        /\ d_error = "nan" <=> (C15_NonFinite(d_heap, d_obj) /\ ~dump_opts.allow_nan)
        /\ d_error # "nan" =>
              /\ C15_Reals(d_doc) = C15_Floats(d_heap, d_obj)
              /\ d_entry = "dump" => (d_error = "none" /\ d_result # <<>>)

\* the case of C15: a value with an infinite Float two containers down has
\* been dumped with allow_nan given as false
C15_Witness ==
    /\ d_pc = "done"
    /\ opts_hash # Qnil
    /\ opts_hash.allow_nan = Qfalse
    /\ Len(d_heap) = 3
    /\ d_heap[3].items = <<Flo("inf", 0)>>
    /\ d_heap[1].items = <<Fix(1), Ref(2)>>

(***************************************************************************)
(* Claims about the import                                                 *)
(***************************************************************************)
\* C16: the importer's native recursion is never deeper than the resolved
\* max_nesting of the call (when that is not 0, which means no limit): a
\* text nested deeper is not imported by recursing as deep as it is nested.
C16_ImportRecursionBounded ==
    (d_pc = "loaded" /\ l_error = "none" /\ parse_opts.max_nesting > 0) =>
        l_depth <= parse_opts.max_nesting

\* the case of C16: a text nested two deep has been loaded with max_nesting 1
C16_Witness ==
    /\ d_pc = "loaded" /\ l_error = "none"
    /\ parse_opts.max_nesting = 1
    /\ \E n \in 2..Len(d_doc) : d_doc[1].k \in {"arr", "obj"} /\ d_doc[n].k \in {"arr", "obj"}

\* the value a node of the document stands for, read off the document: an
\* array gives its children in order, an object its pairs in order, a key
\* being an atom with sym and a string without; with merge, the pairs of an
\* object that have the same key are one pair
RECURSIVE C17_Node(_, _, _, _)
RECURSIVE C17_Items(_, _, _, _, _)
RECURSIVE C17_Pairs(_, _, _, _, _)
C17_Items(doc, p, sym, merge, acc) ==
    IF doc[p].k = "end_arr" THEN [v |-> acc, p |-> p + 1]
    ELSE C17_Items(doc, C17_Node(doc, p, sym, merge).p, sym, merge,
                   Append(acc, C17_Node(doc, p, sym, merge).v))

C17_Pairs(doc, p, sym, merge, acc) ==
    IF doc[p].k = "end_obj" THEN [v |-> acc, p |-> p + 1]
    ELSE C17_Pairs(doc, C17_Node(doc, p + 1, sym, merge).p, sym, merge,
                   Append(acc, << IF sym THEN Sym(doc[p].s) ELSE Str(doc[p].s),
                                  C17_Node(doc, p + 1, sym, merge).v >>))

C17_Node(doc, p, sym, merge) ==
    CASE doc[p].k = "arr" ->
            [v |-> PArr(C17_Items(doc, p + 1, sym, merge, <<>>).v),
             p |-> C17_Items(doc, p + 1, sym, merge, <<>>).p]
      [] doc[p].k = "obj" ->
            [v |-> PHash(IF merge THEN C6_Merge(C17_Pairs(doc, p + 1, sym, merge, <<>>).v, 1)
                         ELSE C17_Pairs(doc, p + 1, sym, merge, <<>>).v),
             p |-> C17_Pairs(doc, p + 1, sym, merge, <<>>).p]
      [] doc[p].k = "str"   -> [v |-> Str(doc[p].s), p |-> p + 1]
      [] doc[p].k = "null"  -> [v |-> Qnil, p |-> p + 1]
      [] doc[p].k = "true"  -> [v |-> Qtrue, p |-> p + 1]
      [] doc[p].k = "false" -> [v |-> Qfalse, p |-> p + 1]
      [] doc[p].k \in {"sint", "uint"} -> [v |-> Fix(doc[p].n), p |-> p + 1]
      [] doc[p].k = "real"  -> [v |-> Flo("fin", doc[p].n), p |-> p + 1]
      [] OTHER              -> [v |-> Flo(doc[p].k, doc[p].n), p |-> p + 1]

\* C17 as stated: an array node is imported as the sequence of the imports of
\* its children, in order and of its length; an object node as a map with
\* one entry for each of its pairs, in source order, the key an atom with
\* symbolize_names and a string without, the value the import of the pair's
\* value.
C17_ContainerImport ==
    (d_pc = "loaded" /\ l_error = "none") =>
        C6_Plain(l_value) = C17_Node(d_doc, 1, parse_opts.symbolize_names, FALSE).v

\* C17 amended: the same, with one entry for each distinct key of an object
\* node, at the place of the key's first pair and with the import of the
\* value of its last pair (so one entry per pair when the keys differ).
C17_ContainerImportMerged ==
    (d_pc = "loaded" /\ l_error = "none") =>
        C6_Plain(l_value) = C17_Node(d_doc, 1, parse_opts.symbolize_names, TRUE).v

\* the case of C17: the text {"a":1,"b":[1,1]} has been loaded
C17_Witness ==
    /\ d_pc = "loaded" /\ l_error = "none"
    /\ d_result = <<123, 34, 97, 34, 58, 49, 44, 34, 98, 34, 58, 91, 49, 44, 49, 93, 125>>
    /\ Len(l_value.v) = 2
    /\ Len(l_value.v[2][2].v) = 2

\* every string value, array and hash of a built value, at every depth, has
\* its frozen flag equal to f (the keys of a hash are not values)
RECURSIVE C18_FrozenIs(_, _)
C18_FrozenIs(val, f) ==
    CASE val.t = "string" -> val.frozen = f
      [] val.t = "array"  ->
            /\ val.frozen = f
            /\ \A n \in 1..Len(val.v) : C18_FrozenIs(val.v[n], f)
      [] val.t = "hash"   ->
            /\ val.frozen = f
            /\ \A n \in 1..Len(val.v) : C18_FrozenIs(val.v[n][2], f)
      [] OTHER            -> TRUE

\* C18: with the freeze option every string value, array and hash of the
\* imported result is frozen, at every depth, the empty ones and the root
\* included; without it none of them is.
C18_FreezePropagation ==
    (d_pc = "loaded" /\ l_error = "none") => C18_FrozenIs(l_value, parse_opts.freeze)

\* the case of C18: an array with a string in it has been loaded with freeze
C18_Witness ==
    /\ d_pc = "loaded" /\ l_error = "none"
    /\ parse_opts.freeze
    /\ l_value.t = "array"
    /\ Len(l_value.v) = 2
    /\ l_value.v[2].t = "string"

(***************************************************************************)
(* Claims about the cache lookups                                          *)
(***************************************************************************)
\* the step is one key lookup of the call in progress
C19_Lookup ==
    /\ c_pc = "building" /\ c_pc' = "building"
    /\ Len(key_log') = Len(key_log) + 1

\* the key looked up, the atom returned and the cache of the call afterwards
C19_Key   == key_log'[Len(key_log')].key
C19_Val   == key_log'[Len(key_log')].val
C19_After == IF symbolize THEN sym_cache' ELSE str_cache'

\* the cache is left as it was when it need not or cannot take the key
C19_NoInsert ==
    \/ ~C7_Eligible(C19_Key)
    \/ C7_Cached(C19_Key)
    \/ Len(C7_Cache) >= 63

C19_FrameOfLookup ==
    /\ IF symbolize THEN str_cache' = str_cache ELSE sym_cache' = sym_cache
    /\ IF C19_NoInsert
       THEN C19_After = C7_Cache
       ELSE /\ Len(C19_After) = Len(C7_Cache) + 1
            /\ C8_Kept(C7_Cache, C19_After)
            /\ \E n \in 1..Len(C19_After) :
                  C19_After[n].ptr = C19_Key /\ C19_After[n].val = C19_Val
    /\ C19_Val.v = C19_Key
    /\ C7_Cached(C19_Key) /\ C7_Eligible(C19_Key) =>
          \E n \in 1..Len(C7_Cache) : C7_Cache[n].ptr = C19_Key /\ C7_Cache[n].val = C19_Val
    /\ (~C7_Eligible(C19_Key) \/ ~C7_Cached(C19_Key)) /\ ~symbolize /\ ~have_interned =>
          (C19_Val.id = next_id /\ next_id' = next_id + 1)

\* C19: a key lookup leaves the cache of the call (its length and every
\* entry) as it was when the key is ineligible, when it is cached already,
\* and when it is missing from a cache of 63 entries; a miss on an eligible
\* key below capacity adds exactly one entry, the key with the atom returned,
\* and moves no other.  The atom returned always spells the key: on a hit it
\* is the cached one, otherwise a new one (a new String object where strings
\* are not interned).  The other cache is never touched.
C19_CacheFrame ==
    [][C19_Lookup => C19_FrameOfLookup]_vars

\* the case of C19: with 63 keys cached, an ineligible key and a new eligible
\* key have been looked up
C19_Witness ==
    /\ c_pc = "building"
    /\ Len(C7_Cache) = 63
    /\ \E i, j \in 1..Len(key_log) :
           /\ ~C7_Eligible(key_log[i].key)
           /\ C7_Eligible(key_log[j].key) /\ ~C7_Cached(key_log[j].key)

(***************************************************************************)
(* C20: a signed integer node n in the 64-bit signed range imports as the  *)
(* integer n, an unsigned node n in 0..2^64-1 imports as the integer n     *)
(* (also above 2^63-1), and every other number imports as a float.  The    *)
(* small-integer table is unobservable: for every n in -10..100, reached   *)
(* through the signed or the unsigned subtype, the lookup                  *)
(* small_ints[n + 10] returns the same integer n as the plain conversion,  *)
(* and no index outside 0..110 is ever used.                               *)
(***************************************************************************)
\* int is the mathematical integer that the word w spells as an int64_t:
\* w itself below 2^63, and otherwise the negative number whose magnitude
\* added to w gives 2^64
C20_IsSigned(int, w) ==
    /\ int.t = "integer"
    /\ IF w[1] < 32768
       THEN ~int.neg /\ int.mag = w
       ELSE /\ int.neg
            /\ int.mag # <<0, 0, 0, 0>>
            /\ int.mag[1] <= 32768
            /\ WordAdd(int.mag, w) = <<0, 0, 0, 0>>

\* int is the mathematical integer that the word w spells as a uint64_t
C20_IsUnsigned(int, w) ==
    int.t = "integer" /\ ~int.neg /\ int.mag = w

\* the integer n, -2^31 < n < 2^31
C20_Int(n) ==
    [t |-> "integer", neg |-> n < 0,
     mag |-> <<0, 0, (IF n < 0 THEN -n ELSE n) \div 65536, (IF n < 0 THEN -n ELSE n) % 65536>>]

\* the node of the call spells n, by the signed or by the unsigned subtype
C20_Spells(n) ==
    \/ n_sub = "sint" /\ C20_IsSigned(C20_Int(n), n_num)
    \/ n_sub = "uint" /\ C20_IsUnsigned(C20_Int(n), n_num)

C20_NumericImport ==
    n_pc = "built" =>
        /\ n_sub = "sint" => C20_IsSigned(n_value, n_num)
        /\ n_sub = "uint" => C20_IsUnsigned(n_value, n_num)
        /\ n_sub \notin {"sint", "uint"} =>
               n_value = [t |-> "float", cls |-> n_real.cls, v |-> n_real.v]
        /\ \A n \in -10..100 :
               C20_Spells(n) =>
                   /\ n_index = <<0, 0, 0, n + 10>>
                   /\ small_ints[n + 10] = C20_Int(n)
                   /\ n_value = C20_Int(n)
        /\ n_index # <<>> =>
               \E i \in 0..110 : n_index = <<0, 0, 0, i>> /\ C20_Spells(i - 10)

\* the unsigned node 100 was built from the last entry of the table
C20_Witness ==
    /\ n_pc = "built"
    /\ n_sub = "uint"
    /\ n_num = <<0, 0, 0, 100>>
    /\ n_index = <<0, 0, 0, 110>>
    /\ n_value = C20_Int(100)

(***************************************************************************)
(* C21: export session stack discipline.  At every point of an export call *)
(* the depth counter equals the number of container identities in the      *)
(* active-path set, and that set is exactly the chain of arrays and maps   *)
(* being exported, the ancestors of the value dispatched; when the export  *)
(* of a container returns normally the counter and the set are what they   *)
(* were before it was entered, so that a successful export ends with depth *)
(* 0 and an empty set.                                                     *)
(***************************************************************************)
\* the containers whose dump_array / dump_hash call is in progress, the
\* first k of them
C21_Chain(stack, k) == {stack[i].id : i \in 1..k}

C21_Counted ==
    /\ d_depth = Cardinality(d_visited)
    /\ d_depth = Len(d_stack)
    /\ d_visited = C21_Chain(d_stack, Len(d_stack))
    /\ (d_pc = "done" /\ d_error \in {"none", "write"}) => (d_depth = 0 /\ d_visited = {})
    /\ (d_pc = "ret" /\ d_stack = <<>>) => (d_depth = 0 /\ d_visited = {})

\* a dump_array or dump_hash call returns normally
C21_Returns == d_pc = "iter" /\ d_pc' = "ret"

C21_Restored ==
    /\ Len(d_stack) > 0
    /\ d_stack' = SubSeq(d_stack, 1, Len(d_stack) - 1)
    /\ d_depth' = Len(d_stack) - 1
    /\ d_visited' = C21_Chain(d_stack, Len(d_stack) - 1)
    /\ d_stack[Len(d_stack)].id \notin d_visited'

C21_StackDiscipline == [](C21_Counted) /\ [][C21_Returns => C21_Restored]_vars

\* a container inside another has returned, and the outer one goes on
C21_Witness ==
    /\ d_pc = "ret"
    /\ Len(d_stack) = 1
    /\ d_depth = 1
    /\ d_visited = {d_stack[1].id}
    /\ d_doc # <<>>
    /\ d_doc[Len(d_doc)].k \in {"end_arr", "end_obj"}

(***************************************************************************)
(* C22: map export with nested maps.  For every map, each of its (key,     *)
(* value) pairs is added to the node built for that same map, in iteration *)
(* order, under the key's string form (strings as is, atoms by name, any   *)
(* other key through the generic string conversion); the current-object    *)
(* slot temp_obj is restored after each nested map, so that the pairs      *)
(* following a nested map, or a nested array containing maps, are never    *)
(* added to the nested map's node or to a sibling's node.                  *)
(***************************************************************************)
\* the string form of a key
C22_KeyForm(heap, k) ==
    CASE k.t \in {"string", "symbol"} -> k.v
      [] k.t = "fixnum" -> IntToS(k.v)
      [] k.t = "nil"    -> <<>>
      [] k.t = "ref"    -> heap[k.id].s
      [] OTHER          -> RbToS(heap, k)

\* the map whose dump_hash call is the innermost one in progress
C22_Maps == {i \in 1..Len(d_stack) : d_stack[i].kind = "hash"}

C22_Innermost == CHOOSE i \in C22_Maps : \A j \in C22_Maps : j <= i

\* between members the slot holds the node of the innermost map in progress
C22_Slot ==
    (d_pc \in {"iter", "ret"} /\ C22_Maps # {}) =>
        dump_opts.temp_obj = d_stack[C22_Innermost].node

\* the keys added to a node so far
C22_KeysOf(doc, node) == {p \in 1..Len(doc) : doc[p].k = "key" /\ doc[p].n = node}

\* the values opened and closed in doc[from..to]
C22_Opens(doc, from, to) ==
    Cardinality({p \in from..to : doc[p].k \in {"arr", "obj"}})
C22_Closes(doc, from, to) ==
    Cardinality({p \in from..to : doc[p].k \in {"end_arr", "end_obj"}})

\* dump_hash_iter adds a pair
C22_Adds ==
    /\ d_pc = "ret" /\ d_pc' = "iter"
    /\ d_stack # <<>> /\ d_stack[Len(d_stack)].kind = "hash"

\* the pair added is member i + 1 of the map, under its key's string form,
\* and goes last into the node opened for this map, which is the innermost
\* node open
C22_AddedToOwn ==
    LET f == d_stack[Len(d_stack)]
        h == d_heap[f.id]
    IN  /\ Len(d_doc') = Len(d_doc) + 1
        /\ SubSeq(d_doc', 1, f.vstart - 1) = SubSeq(d_doc, 1, f.vstart - 1)
        /\ SubSeq(d_doc', f.vstart + 1, Len(d_doc')) = SubSeq(d_doc, f.vstart, Len(d_doc))
        /\ d_doc'[f.vstart].k = "key"
        /\ d_doc'[f.vstart].s = C22_KeyForm(d_heap, h.keys[f.i + 1])
        /\ d_doc'[f.vstart].n = f.node
        /\ Cardinality(C22_KeysOf(d_doc, f.node)) = f.i
        /\ \A p \in C22_KeysOf(d_doc, f.node) : p < f.vstart
        /\ \E p \in 1..(f.vstart - 1) :
              /\ d_doc[p].k = "obj" /\ d_doc[p].n = f.node
              /\ \A q \in 1..Len(d_doc) : (d_doc[q].k = "obj" /\ d_doc[q].n = f.node) => q = p
              /\ C22_Opens(d_doc, p + 1, f.vstart - 1) = C22_Closes(d_doc, p + 1, f.vstart - 1)
              /\ \A q \in (p + 1)..(f.vstart - 1) :
                    C22_Opens(d_doc, p + 1, q) >= C22_Closes(d_doc, p + 1, q)

\* dump_hash returns
C22_Ends ==
    /\ d_pc = "iter" /\ d_pc' = "ret"
    /\ d_stack[Len(d_stack)].kind = "hash"

\* every pair of the map is in its node
C22_AllAdded ==
    LET f == d_stack[Len(d_stack)]
    IN  Cardinality(C22_KeysOf(d_doc, f.node)) = Len(d_heap[f.id].keys)

C22_MapExport ==
    [](C22_Slot) /\ [][(C22_Adds => C22_AddedToOwn) /\ (C22_Ends => C22_AllAdded)]_vars

\* {k => [{"n" => 1}], "z" => 2}: the pair "z" went into the outer node after
\* the array holding a map
C22_Witness ==
    /\ d_pc = "iter"
    /\ Len(d_stack) = 1
    /\ d_stack[1].kind = "hash"
    /\ d_stack[1].i = 2
    /\ Len(d_heap) = 4
    /\ d_heap[2].t = "array"
    /\ \E p \in 2..Len(d_doc) :
          /\ d_doc[p] = [k |-> "key", n |-> d_stack[1].node, s |-> <<122>>]
          /\ d_doc[p - 1].k = "end_arr"

(***************************************************************************)
(* C23: export terminates.  Every export call on a finite host value graph *)
(* eventually returns a node or raises an error, also when the as_json of  *)
(* an opaque object returns another opaque object with as_json, or the     *)
(* object itself; the recursion through as_json is subject to the depth    *)
(* limit or the cycle check like the recursion through containers.         *)
(***************************************************************************)
\* the export has returned its node, or raised what dump_float, the depth
\* limit, the cycle check or the writer raise
C23_Ended ==
    /\ d_pc \in {"done", "loaded"}
    /\ d_error \in {"none", "nesting", "circular", "nan", "write"}

C23_ExportTerminates == [](d_pc = "call" => <>C23_Ended)

\* an object is dumped whose as_json has returned the object itself, with no
\* container entered and nothing marked
C23_Witness ==
    /\ d_pc = "call"
    /\ d_native >= 1
    /\ d_cur = d_obj
    /\ TYPE(d_heap, d_cur) = "T_OBJECT"
    /\ try_as_json(d_heap, d_cur, dump_opts) = d_cur
    /\ d_depth = 0
    /\ d_visited = {}

(***************************************************************************)
(* C24: importer output is accepted by the exporter.  Every integer the    *)
(* importer can produce, any value from -2^63 to 2^64-1, is exported as an *)
(* integer node of the same value, and an export failure for an            *)
(* unsupported value is reported as a GenerateError, not as another kind   *)
(* of error.                                                               *)
(***************************************************************************)
\* the node spells the integer: as a sint in two's complement, as a uint as
\* it stands
C24_SameValue(node, int) ==
    \/ node.sub = "sint" /\ C20_IsSigned(int, node.n)
    \/ node.sub = "uint" /\ C20_IsUnsigned(int, node.n)

C24_ImportedIntegersExport ==
    (n_pc = "dumped" /\ n_sub \in {"sint", "uint"}) =>
        /\ n_raise \in {"none", "GenerateError"}
        /\ n_raise = "none"
        /\ C24_SameValue(n_out, n_value)

\* 2^63, imported from an unsigned node, has been handed to dump_integer
C24_Witness ==
    /\ n_pc = "dumped"
    /\ n_sub = "uint"
    /\ n_num = <<32768, 0, 0, 0>>
    /\ n_value = [t |-> "integer", neg |-> FALSE, mag |-> <<32768, 0, 0, 0>>]

====
